---- MODULE Spec2Model ----
(***************************************************************************)
(* Pixel-to-ground core of PTZDataExtractor (src/core/i2g_core.py).        *)
(*                                                                         *)
(* image_ray turns a pixel, the intrinsics, a PTZ reading and the pose     *)
(* into a world ray; intersect_ray_with_dem marches that ray over a DEM    *)
(* and bisects the first bracket in which the ray crosses the terrain.     *)
(*                                                                         *)
(* Numbers.  The code works in IEEE doubles; the model works in fixed      *)
(* point.  Lengths, elevations, direction components and pixel quantities  *)
(* are integers in units of 1/Scale.  Angles are whole degrees, multiples  *)
(* of 5, with the sines of SinTable.  The ray parameter t is an integer    *)
(* number of ticks, one tick being |step| / 2^refine_steps, so that every  *)
(* march sample and every bisection midpoint is represented exactly.       *)
(***************************************************************************)
EXTENDS Integers, Sequences, FiniteSets, TLC

Scale == 10^3

Abs(a) == IF a < 0 THEN -a ELSE a
Sgn(a) == IF a < 0 THEN -1 ELSE IF a > 0 THEN 1 ELSE 0

\* a / b rounded to the nearest integer (b # 0)
RDiv(a, b) ==
    IF b < 0 THEN (2 * (-a) + (-b)) \div (2 * (-b))
             ELSE (2 * a + b) \div (2 * b)

Pow2(n) == 2^n

RECURSIVE SqrtIter(_, _)
SqrtIter(n, x) ==
    LET y == (x + n \div x) \div 2
    IN  IF y >= x THEN x ELSE SqrtIter(n, y)

\* floor(sqrt(n)), n >= 0
ISqrt(n) == IF n = 0 THEN 0 ELSE SqrtIter(n, n)

Dot(a, b) == a[1] * b[1] + a[2] * b[2] + a[3] * b[3]

\* the largest power of ten f with n2 * f^2 within the integer range
NormScale(n2) ==
    IF n2 <= (2 * 10^9) \div (10^8) THEN 10^4
    ELSE IF n2 <= (2 * 10^9) \div (10^6) THEN 10^3
    ELSE IF n2 <= (2 * 10^9) \div (10^4) THEN 10^2
    ELSE IF n2 <= (2 * 10^9) \div (10^2) THEN 10
    ELSE 1

\* v / np.linalg.norm(v): a vector of any length to a unit vector, whose
\* components are in units of 1/Scale
Normalize(v) ==
    LET n2 == Dot(v, v)
        f  == NormScale(n2)
        nf == ISqrt(n2 * f * f)
    IN  [i \in 1..3 |-> RDiv(v[i] * Scale * f, nf)]

---------------------------------------------------------------------------
(* Optional[float] fields *)

None == [some |-> FALSE, v |-> 0]
Some(x) == [some |-> TRUE, v |-> x]

\* Python's `field or 0.0`: None and 0.0 are both falsy
OrZero(f) == IF f.some /\ f.v # 0 THEN f.v ELSE 0

---------------------------------------------------------------------------
(* Trigonometry on whole degrees *)

\* 1000 * sin(0), sin(5), ..., sin(90)
SinTable ==
    << 0, 87, 174, 259, 342, 423, 500, 574, 643, 707,
       766, 819, 866, 906, 940, 966, 985, 996, 1000 >>

\* math.sin(math.radians(deg)), deg a multiple of 5
Sin(deg) ==
    LET a == deg % 360
    IN  IF a <= 90 THEN SinTable[a \div 5 + 1]
        ELSE IF a <= 180 THEN SinTable[(180 - a) \div 5 + 1]
        ELSE IF a <= 270 THEN -SinTable[(a - 180) \div 5 + 1]
        ELSE -SinTable[(360 - a) \div 5 + 1]

\* math.cos(math.radians(deg))
Cos(deg) == Sin(deg + 90)

\* A @ B for 3x3 matrices with entries in units of 1/Scale
MatMul(A, B) ==
    [i \in 1..3 |-> [j \in 1..3 |->
        RDiv(A[i][1] * B[1][j] + A[i][2] * B[2][j] + A[i][3] * B[3][j], Scale)]]

\* M @ v
MatVec(M, v) ==
    [i \in 1..3 |-> RDiv(M[i][1] * v[1] + M[i][2] * v[2] + M[i][3] * v[3], Scale)]

\* _rotation_matrix with the yaw taken from east instead of from north
RotationMatrixYawFromEast(yaw_deg, pitch_deg, roll_deg) ==
    LET cy == Cos(yaw_deg)    sy == Sin(yaw_deg)
        cp == Cos(pitch_deg)  sp == Sin(pitch_deg)
        cr == Cos(roll_deg)   sr == Sin(roll_deg)
        Rz == << <<cy, -sy, 0>>, <<sy, cy, 0>>, <<0, 0, Scale>> >>
        Ry == << <<cp, 0, sp>>, <<0, Scale, 0>>, <<-sp, 0, cp>> >>
        Rx == << <<Scale, 0, 0>>, <<0, cr, -sr>>, <<0, sr, cr>> >>
        R0 == << <<0, 0, Scale>>, <<Scale, 0, 0>>, <<0, -Scale, 0>> >>
    IN  MatMul(MatMul(MatMul(Rz, Ry), Rx), R0)

\* _rotation_matrix(yaw_deg, pitch_deg, roll_deg) = Rz @ Ry @ Rx @ R0
RotationMatrix(yaw_deg, pitch_deg, roll_deg) ==
    LET yaw_a == 90 - yaw_deg
        cy == Cos(yaw_a)      sy == Sin(yaw_a)
        cp == Cos(pitch_deg)  sp == Sin(pitch_deg)
        cr == Cos(roll_deg)   sr == Sin(roll_deg)
        Rz == << <<cy, -sy, 0>>, <<sy, cy, 0>>, <<0, 0, Scale>> >>
        Ry == << <<cp, 0, sp>>, <<0, Scale, 0>>, <<-sp, 0, cp>> >>
        Rx == << <<Scale, 0, 0>>, <<0, cr, -sr>>, <<0, sr, cr>> >>
        R0 == << <<0, 0, Scale>>, <<Scale, 0, 0>>, <<0, -Scale, 0>> >>
    IN  MatMul(MatMul(MatMul(Rz, Ry), Rx), R0)

---------------------------------------------------------------------------
(* Intrinsics, Extrinsics, PTZ *)

\* Intrinsics.from_hfov(width, height, hfov_deg) after __post_init__:
\* fx = fy = (width / 2) / tan(hfov / 2), cx = width / 2, cy = height / 2
\* (hfov_deg a multiple of 10, 0 < hfov_deg < 180)
FromHfov(width, height, hfov_deg) ==
    LET f == RDiv(width * (Scale \div 2) * Cos(hfov_deg \div 2), Sin(hfov_deg \div 2))
    IN  [width |-> width, height |-> height, fx |-> f, fy |-> f,
         cx |-> width * (Scale \div 2), cy |-> height * (Scale \div 2)]

\* the yaw, pitch and roll image_ray hands to _rotation_matrix
\* the pan dropped
EffectiveYawNoPan(ptz, extr) == extr.yaw
EffectiveYaw(ptz, extr) == extr.yaw + OrZero(ptz.pan)
\* the tilt added to the pitch
EffectivePitchAdded(ptz, extr) == extr.pitch + OrZero(ptz.tilt)
EffectivePitch(ptz, extr) == extr.pitch - OrZero(ptz.tilt)
EffectiveRoll(ptz, extr) == extr.roll

\* the direction image_ray returns
ImageRayDir(pu, pv, intr, ptz, extr) ==
    LET x_cam == RDiv((pu * Scale - intr.cx) * Scale, intr.fx)
        y_cam == RDiv((pv * Scale - intr.cy) * Scale, intr.fy)
        d_cam == Normalize(<<x_cam, y_cam, Scale>>)
        R == RotationMatrix(EffectiveYaw(ptz, extr), EffectivePitch(ptz, extr),
                            EffectiveRoll(ptz, extr))
    IN  Normalize(MatVec(R, d_cam))

\* the origin image_ray returns
ImageRayOrigin(extr) == <<extr.x, extr.y, extr.z>>

---------------------------------------------------------------------------
(* DemSampler: elevation(x, y) -> Optional[float], and meters_per_unit *)

Finite(e) == [kind |-> "finite", v |-> e]
NoSample == [kind |-> "None", v |-> 0]
Infinite == [kind |-> "inf", v |-> 0]

\* a raster cell holding the dataset's nodata value
NoData == -9999

\* `elev is None or not math.isfinite(elev)` is false
IsValid(e) == e.kind = "finite"

\* FlatDem.elevation: the same elevation everywhere
FlatElevation(dem, x, y) == Finite(dem.e1)

\* SlopeDem.elevation: m * x, with m = e1 / e2
SlopeElevation(dem, x, y) == Finite(RDiv(x * dem.e1, dem.e2))

\* HoleDem.elevation: float("inf") where x > thr, else e1
HoleElevation(dem, x, y) == IF x > dem.thr THEN Infinite ELSE Finite(dem.e1)

\* PlateauDem.elevation: e1 where x >= thr, else e2
PlateauElevation(dem, x, y) == IF x >= dem.thr THEN Finite(dem.e1) ELSE Finite(dem.e2)

\* RasterioDemSampler.elevation: a one-row raster of cells of width cellw
\* from x0 on, covering |y| <= cellw; None outside the raster and on nodata
RasterElevation(dem, x, y) ==
    LET col == (x - dem.x0) \div dem.cellw + 1
    IN  IF col < 1 \/ col > Len(dem.cells) \/ Abs(y) > dem.cellw THEN NoSample
        ELSE IF dem.cells[col] = NoData THEN NoSample
        ELSE Finite(dem.cells[col])

\* dem.elevation(x, y)
Elevation(dem, x, y) ==
    CASE dem.kind = "flat"    -> FlatElevation(dem, x, y)
      [] dem.kind = "slope"   -> SlopeElevation(dem, x, y)
      [] dem.kind = "hole"    -> HoleElevation(dem, x, y)
      [] dem.kind = "plateau" -> PlateauElevation(dem, x, y)
      [] dem.kind = "raster"  -> RasterElevation(dem, x, y)

Dem(kind, thr, e1, e2, cells, x0, cellw, mpu) ==
    [kind |-> kind, thr |-> thr, e1 |-> e1, e2 |-> e2, cells |-> cells,
     x0 |-> x0, cellw |-> cellw, mpu |-> mpu]

---------------------------------------------------------------------------
(* intersect_ray_with_dem: the quantities fixed for one call.              *)
(* q = [o, d, dem, max_range_m, step_m, refine_steps], d the unit direction *)

\* lines 177-178: d = ray_dir / |ray_dir|
UnitDir(ray_dir) == Normalize(ray_dir)

\* ticks in one march step: t += step
StepTicks(q) == Sgn(q.step_m) * Pow2(q.refine_steps)

\* floor(a * b / 2^r) for 0 <= b < 2^r, r <= 20, |a| <= 2 * 10^6
ShiftMul(a, b, r) ==
    IF r <= 10 THEN (a * b) \div Pow2(r)
    ELSE (a * (b \div Pow2(10)) + (a * (b % Pow2(10))) \div Pow2(10)) \div Pow2(r - 10)

\* floor(a * t / (mpu * 2^r)): the displacement along one axis after t ticks,
\* a being the unit direction component times |step_m|
Offset(a, t, r, mpu) ==
    (a * (t \div Pow2(r)) + ShiftMul(a, t % Pow2(r), r)) \div mpu

\* p = o + d * t, t in ticks of (|step_m| / meters_per_unit) / 2^refine_steps
Pos(q, t) ==
    [i \in 1..3 |->
        q.o[i] + Offset(q.d[i] * Abs(q.step_m), t, q.refine_steps, q.dem.mpu)]

\* dem.elevation(float(p[0]), float(p[1])) at ray parameter t
ElevAt(q, t) == LET p == Pos(q, t) IN Elevation(q.dem, p[1], p[2])

\* the loop condition `t <= max_range` for a march sample t = k * step,
\* with step = step_m / mpu and max_range = max_range_m / mpu
InRange(q, t) == (t \div Pow2(q.refine_steps)) * Abs(q.step_m) <= q.max_range_m

\* elev_prev = -1e9 (metres) when the sample at the origin is missing
SubstituteElev == -(10^9)
Substituted == [kind |-> "substituted", v |-> SubstituteElev]

\* the anchor elevation after lines 185-187
FirstAnchor(q) ==
    LET e == ElevAt(q, 0) IN IF IsValid(e) THEN e ELSE Substituted

\* p[2] - elev.  Only the sign of this value and, for finite samples, its
\* magnitude are used; against the substituted -1e9 it is formed in metres.
Val(z, e) == IF e.kind = "substituted" THEN (z \div Scale) - e.v ELSE z - e.v

\* `a * b <= 0`, formed from the signs so that the product stays in range
ProdNonPos(a, b) == Sgn(a) * Sgn(b) <= 0

\* prev_val = p_prev[2] - elev_prev
PrevVal(q, tp, ep) == Val(Pos(q, tp)[3], ep)

\* curr_val = p[2] - elev
CurrVal(q, t) == Val(Pos(q, t)[3], ElevAt(q, t))

\* line 199 with < in place of <=: an exact touch is no crossing
CrossingStrict(q, tp, ep, t) ==
    Sgn(PrevVal(q, tp, ep)) * Sgn(CurrVal(q, t)) < 0

\* line 199 at a valid sample t against the anchor (tp, ep)
Crossing(q, tp, ep, t) == ProdNonPos(PrevVal(q, tp, ep), CurrVal(q, t))

\* mid = 0.5 * (lo + hi)
Mid(lo, hi) == (lo + hi) \div 2

NoHit == [hit |-> FALSE, x |-> 0, y |-> 0, z |-> 0]
Hit(x, y, z) == [hit |-> TRUE, x |-> x, y |-> y, z |-> z]

\* the point on the ray returned, as geom3d.intersect_ray_with_dtm does
HitAtRayPoint(q, hi) ==
    LET p_hit == Pos(q, hi) IN Hit(p_hit[1], p_hit[2], p_hit[3])

\* lines 214-218: the point returned for the refined upper end hi
HitAt(q, hi) ==
    LET p_hit == Pos(q, hi)
        e == ElevAt(q, hi)
        elev_hit == IF IsValid(e) THEN e.v ELSE p_hit[3]
    IN  Hit(p_hit[1], p_hit[2], elev_hit)

---------------------------------------------------------------------------
(* intersect_ray_with_dem as a function of its arguments *)

RECURSIVE RefineFrom(_, _, _, _, _)
\* lines 202-213: the upper end hi after the remaining bisection iterations
RefineFrom(q, l, h, vl, n) ==
    IF n >= q.refine_steps THEN h
    ELSE LET m == Mid(l, h)
             e == ElevAt(q, m)
             vm == Val(Pos(q, m)[3], e)
         IN  IF ~IsValid(e) THEN RefineFrom(q, m, h, vl, n + 1)
             ELSE IF ProdNonPos(vl, vm) THEN RefineFrom(q, l, m, vl, n + 1)
             ELSE RefineFrom(q, m, h, vm, n + 1)

RECURSIVE MarchFrom(_, _, _, _)
\* lines 190-223: the result of the march from sample tt with anchor (tp, ep)
MarchFrom(q, tp, ep, tt) ==
    IF ~InRange(q, tt) THEN NoHit
    ELSE IF ~IsValid(ElevAt(q, tt)) THEN MarchFrom(q, tp, ep, tt + StepTicks(q))
    ELSE IF Crossing(q, tp, ep, tt)
         THEN HitAt(q, RefineFrom(q, tp, tt, PrevVal(q, tp, ep), 0))
    ELSE MarchFrom(q, tt, ElevAt(q, tt), tt + StepTicks(q))

Call(o, ray_dir, dm, mr, st, rs) ==
    [o |-> o, d |-> UnitDir(ray_dir), dem |-> dm, max_range_m |-> mr, step_m |-> st,
     refine_steps |-> rs]

\* intersect_ray_with_dem(ray_origin, ray_dir, dem, max_range_m, step_m, refine_steps)
Intersect(o, ray_dir, dm, mr, st, rs) ==
    LET q == Call(o, ray_dir, dm, mr, st, rs)
    IN  MarchFrom(q, 0, FirstAnchor(q), StepTicks(q))

---------------------------------------------------------------------------
(* State *)

VARIABLES
    cam,            \* the arguments of image_ray: [used, u, v, intr, ptz, extr]
    eff,            \* image_ray's locals yaw, pitch, roll
    ray_origin,     \* intersect_ray_with_dem's arguments ...
    ray_dir,
    dem,
    max_range_m,
    step_m,
    refine_steps,
    d,              \* ... and its locals
    t,
    t_prev,
    elev_prev,
    lo,
    hi,
    val_lo,
    val_mid,        \* val_mid of the latest iteration, None when it formed none
    iter,           \* bisection iterations completed
    result,
    samples,        \* calls of dem.elevation made so far
    pc

inputs == <<cam, dem, max_range_m, step_m, refine_steps>>
ray == <<ray_origin, ray_dir>>
march == <<d, t, t_prev, elev_prev>>
bisect == <<lo, hi, val_lo, val_mid, iter>>
core == <<cam, eff, ray_origin, ray_dir, dem, max_range_m, step_m, refine_steps,
          d, t, t_prev, elev_prev, lo, hi, val_lo, val_mid, iter, result, samples,
          pc>>

\* geom3d.py: a GeoRef, a local point taken to geographic coordinates and
\* back, and a call of intersect_ray_with_dtm
VARIABLES
    georef,         \* GeoRef: [origin_lat, origin_lon, origin_alt, yaw_site_deg, projected_epsg]
    geo_p,          \* the local point handed to local_to_geographic
    geo_lla,        \* its result ["lla"]: [lat, lon, alt]
    geo_local,      \* geographic_to_local of that result
    dtm,            \* the DTM: [crs_epsg, left, right, cellw, cells]
    dtm_ray,        \* intersect_ray_with_dtm's o, d, t_max, step
    dtm_prev_t,     \* its locals prev_t (prev_p = o + d * prev_t), z_prev, t, lo, hi
    dtm_z_prev,
    dtm_t,
    dtm_lo,
    dtm_hi,
    dtm_iter,       \* iterations of `for _ in range(25)` completed
    dtm_result,
    geo_pc

geo == <<georef, geo_p, geo_lla, geo_local, dtm, dtm_ray, dtm_prev_t, dtm_z_prev,
         dtm_t, dtm_lo, dtm_hi, dtm_iter, dtm_result, geo_pc>>

\* ui_img2ground_module.py and calibration_utils.py: the angle and homography
\* helpers and the module's calibration state
VARIABLES
    H,              \* self._H: None or the fitted homography
    calib_img_wh,   \* self._calib_img_wh: None or <<iw, ih>>
    yaw_offset_deg, \* self._yaw_offset_deg
    hfov_deg,       \* self._hfov_deg
    ctx,            \* app_state.current_camera: [present, yaw_offset_deg]
    pan_deg,        \* self._ptz_last.pan_deg
    shown,          \* the map position shown for the latest click
    call,           \* the call being made: its name and arguments
    norm_a,         \* the variable a of _normalize_angle_deg
    ret,            \* the value the call returned
    picks,          \* azimuth calibrations made so far
    ui_pc

ui == <<H, calib_img_wh, yaw_offset_deg, hfov_deg, ctx, pan_deg, shown, call,
        norm_a, ret, picks, ui_pc>>

\* any_ptz_client.py: an AnyPTZClient and the pollers it has created
VARIABLES
    ap_client,      \* self._client: 0 (None) or the index of a poller in ap_pollers
    ap_mode,        \* self.mode: "None", "onvif" or "cgi"
    ap_poll_dt,     \* self.poll_dt: "default" (1.0) or the kind of poller it was read from
    ap_pollers,     \* the pollers created so far: <<[kind, running], ...>>
    ap_call,        \* the latest call: its name, what happened in it, how it ended
    ap_pc

anyptz == <<ap_client, ap_mode, ap_poll_dt, ap_pollers, ap_call, ap_pc>>

\* camera_models.py and _persist_ctx_offsets: the files holding the offsets
VARIABLES
    st_bundle,      \* the bundle file's JSON object
    st_profiles,    \* the profiles file's JSON list
    st_loaded,      \* the meta dict load_bundle returned
    st_call,        \* the latest call and its arguments
    st_persists,    \* calls of _persist_ctx_offsets so far
    st_pc

store == <<st_bundle, st_profiles, st_loaded, st_call, st_persists, st_pc>>

\* ptz_cgi.py and onvif_ptz.py: a poller object and its polling threads
VARIABLES
    pl_kind,        \* "cgi" (PtzCgiThread) or "onvif" (OnvifPTZClient)
    pl_last,        \* self._last
    pl_stop,        \* self._stop.is_set()
    pl_th,          \* self._th: 0 (None) or the index of a thread in pl_threads
    pl_threads,     \* the threads start() has created: <<[pc, resp], ...>>
    ptz_meta,       \* shared_state.ptz_meta
    pl_snap,        \* the reading the caller took from last()
    pl_caller       \* where the calling thread is: "ready", "joining", "stopped"

poller == <<pl_kind, pl_last, pl_stop, pl_th, pl_threads, ptz_meta, pl_snap, pl_caller>>

\* ui_img2ground_module.py HomographyDialog
VARIABLES
    dlg_uvs,        \* self._uvs
    dlg_xys,        \* self._xys, each with the number of its marker on the map
    dlg_awaiting,   \* self._awaiting: "image" or "map"
    dlg_ok,         \* self._ok.isEnabled()
    dlg_result,     \* what result() gave the caller after OK
    dlg_pc          \* "open", "accepted", "rejected"

dialog == <<dlg_uvs, dlg_xys, dlg_awaiting, dlg_ok, dlg_result, dlg_pc>>

\* the parts of the program outside the image-to-ground computation
ext == <<anyptz, store, poller, dialog>>

vars == <<core, geo, ui, ext>>

\* the state a part of the program is in while another part is exercised
CoreIdle ==
    /\ cam = [used |-> FALSE] /\ eff = 0 /\ ray_origin = 0 /\ ray_dir = 0 /\ dem = 0
    /\ max_range_m = 0 /\ step_m = 0 /\ refine_steps = 0 /\ d = 0 /\ t = 0
    /\ t_prev = 0 /\ elev_prev = 0 /\ lo = 0 /\ hi = 0 /\ val_lo = 0 /\ val_mid = 0
    /\ iter = 0 /\ result = 0 /\ samples = 0 /\ pc = "idle"

GeoIdle ==
    /\ georef = 0 /\ geo_p = 0 /\ geo_lla = 0 /\ geo_local = 0 /\ dtm = 0
    /\ dtm_ray = 0 /\ dtm_prev_t = 0 /\ dtm_z_prev = 0 /\ dtm_t = 0 /\ dtm_lo = 0
    /\ dtm_hi = 0 /\ dtm_iter = 0 /\ dtm_result = 0 /\ geo_pc = "idle"

UiIdle ==
    /\ H = 0 /\ calib_img_wh = 0 /\ yaw_offset_deg = 0 /\ hfov_deg = 0 /\ ctx = 0
    /\ pan_deg = 0 /\ shown = 0 /\ call = 0 /\ norm_a = 0 /\ ret = 0 /\ picks = 0
    /\ ui_pc = "idle"

AnyPtzIdle ==
    /\ ap_client = 0 /\ ap_mode = "None" /\ ap_poll_dt = "default" /\ ap_pollers = <<>>
    /\ ap_call = 0 /\ ap_pc = "idle"

StoreIdle ==
    /\ st_bundle = 0 /\ st_profiles = 0 /\ st_loaded = 0 /\ st_call = 0
    /\ st_persists = 0 /\ st_pc = "idle"

PollerIdle ==
    /\ pl_kind = "idle" /\ pl_last = 0 /\ pl_stop = FALSE /\ pl_th = 0
    /\ pl_threads = <<>> /\ ptz_meta = 0 /\ pl_snap = 0 /\ pl_caller = "idle"

DialogIdle ==
    /\ dlg_uvs = <<>> /\ dlg_xys = <<>> /\ dlg_awaiting = "idle" /\ dlg_ok = FALSE
    /\ dlg_result = 0 /\ dlg_pc = "idle"

ExtIdle == AnyPtzIdle /\ StoreIdle /\ PollerIdle /\ DialogIdle

\* the arguments of the call in progress
Q == [o |-> ray_origin, d |-> d, dem |-> dem, max_range_m |-> max_range_m,
      step_m |-> step_m, refine_steps |-> refine_steps]

---------------------------------------------------------------------------
(* Inputs.  Lengths in units of 1/Scale: 10000 is 10 m (or 10 native units). *)

\* refine_steps: int = 20
DefaultRefineSteps == 20

\* columns of the raster DEMs
NumCells == 3

Intr400 == FromHfov(400, 300, 90)

\* test_image_ray_uses_principal_point: cx shifted 20 pixels to the right
Intr400Off == [Intr400 EXCEPT !.cx = @ + 20 * Scale]

\* Intrinsics(400, 300, fx, fy): explicit focal lengths are stored unchecked
IntrExplicit(fx, fy) == [Intr400 EXCEPT !.fx = fx, !.fy = fy]

BadIntrinsics ==
    { IntrExplicit(-200 * Scale, 200 * Scale), IntrExplicit(200 * Scale, -200 * Scale),
      IntrExplicit(0, 200 * Scale), IntrExplicit(200 * Scale, 0) }

Pixels == { <<200, 150>>, <<100, 150>>, <<200, 250>> }
PoseYaws == {-90, 0, 90}
PosePitches == {-45, 0, 5, 45, 90}
PoseRolls == {0, 30}
Pans == {None, Some(0), Some(90)}
Tilts == {None, Some(0), Some(10), Some(-10), Some(45), Some(90)}
Zooms == {None, Some(5)}

Cameras ==
    { [used |-> TRUE, u |-> px[1], v |-> px[2], intr |-> Intr400,
       ptz |-> [pan |-> pan, tilt |-> tilt, zoom |-> zoom],
       extr |-> [x |-> 0, y |-> 0, z |-> 10 * Scale, yaw |-> yw, pitch |-> pt,
                 roll |-> rl, epsg |-> 4326]] :
        px \in Pixels, yw \in PoseYaws, pt \in PosePitches, rl \in PoseRolls,
        pan \in Pans, tilt \in Tilts, zoom \in Zooms }
    \cup
    { [used |-> TRUE, u |-> 200, v |-> 150, intr |-> ir,
       ptz |-> [pan |-> Some(0), tilt |-> tilt, zoom |-> None],
       extr |-> [x |-> 0, y |-> 0, z |-> 0, yaw |-> 0, pitch |-> 0,
                 roll |-> 0, epsg |-> 4326]] :
        ir \in {Intr400, Intr400Off}, tilt \in Tilts }
    \cup
    { [used |-> TRUE, u |-> 100, v |-> 150, intr |-> ir,
       ptz |-> [pan |-> None, tilt |-> None, zoom |-> None],
       extr |-> [x |-> 0, y |-> 0, z |-> 10 * Scale, yaw |-> 0, pitch |-> 45,
                 roll |-> 0, epsg |-> 4326]] :
        ir \in BadIntrinsics }

NoCamera ==
    [used |-> FALSE, u |-> 0, v |-> 0, intr |-> Intr400,
     ptz |-> [pan |-> None, tilt |-> None, zoom |-> None],
     extr |-> [x |-> 0, y |-> 0, z |-> 0, yaw |-> 0, pitch |-> 0, roll |-> 0,
               epsg |-> 4326]]

FlatDem(e) == Dem("flat", 0, e, 0, <<>>, 0, 1, 1)
SlopeDem(num, den) == Dem("slope", 0, num, den, <<>>, 0, 1, 1)
HoleDem(thr, e) == Dem("hole", thr, e, 0, <<>>, 0, 1, 1)
PlateauDem(thr, e1, e2, mpu) == Dem("plateau", thr, e1, e2, <<>>, 0, 1, mpu)
RasterDem(cells, x0, cellw) == Dem("raster", 0, 0, 0, cells, x0, cellw, 1)

CellValues == {NoData, 0, 8 * Scale}

\* rasters of NumCells columns, 20 m wide, the first centred on x = 0
RasterDems ==
    { RasterDem(c, -10 * Scale, 20 * Scale) : c \in [1..NumCells -> CellValues] }

\* DEMs whose planar unit is the metre
MetricDems ==
    { FlatDem(0), FlatDem(2 * Scale), FlatDem(12 * Scale), SlopeDem(1, 2), SlopeDem(-1, 2),
      HoleDem(-5 * Scale, 0), HoleDem(25 * Scale, 0) }
    \cup RasterDems

\* DEMs whose planar unit is mpu metres
NativeDems ==
    { PlateauDem(1 * Scale, 2 * Scale, -1 * Scale, 1000),
      Dem("flat", 0, 0, 0, <<>>, 0, 1, 1000),
      PlateauDem(15 * Scale, 2 * Scale, -1 * Scale, 2),
      Dem("flat", 0, 0, 0, <<>>, 0, 1, 2) }

RayOrigins == { <<0, 0, 10 * Scale>>, <<0, 0, 1 * Scale>>, <<0, 0, -3 * Scale>> }
RayDirs ==
    { <<1, 0, 0>>, <<1, 0, -1>>, <<-1, 0, -1>>, <<0, 0, -1>>, <<1, 0, 1>>,
      <<2, 0, -1>>, <<1, 1, -1>> }

\* [dem, max_range_m, step_m, refine_steps] of the calls made with a ray
\* that comes from image_ray
CameraCalls ==
    { [dem |-> FlatDem(0), max_range_m |-> 100, step_m |-> 20,
       refine_steps |-> DefaultRefineSteps] }

\* [dem, max_range_m, step_m, refine_steps, o, dir] of the calls made with a
\* ray given directly
DirectCalls ==
    { [dem |-> dm, max_range_m |-> mr, step_m |-> st, refine_steps |-> rs,
       o |-> o, dir |-> rd] :
        dm \in MetricDems, mr \in {50, 100}, st \in {20, 5}, rs \in {0, 2, 5},
        o \in RayOrigins, rd \in RayDirs }
    \cup
    { [dem |-> dm, max_range_m |-> 1500 * (dm.mpu \div 1000) + 50 * (dm.mpu % 1000),
       step_m |-> 500 * (dm.mpu \div 1000) + 20 * (dm.mpu % 1000), refine_steps |-> rs,
       o |-> o, dir |-> rd] :
        dm \in NativeDems, rs \in {0, 3, DefaultRefineSteps},
        o \in RayOrigins, rd \in RayDirs }

Init ==
    /\ GeoIdle
    /\ UiIdle
    /\ ExtIdle
    /\ \/ /\ cam \in Cameras
          /\ \E c \in CameraCalls :
                /\ dem = c.dem
                /\ max_range_m = c.max_range_m
                /\ step_m = c.step_m
                /\ refine_steps = c.refine_steps
          /\ ray_origin = <<0, 0, 0>>
          /\ ray_dir = <<0, 0, 0>>
          /\ pc = "image_ray"
       \/ /\ cam = NoCamera
          /\ \E c \in DirectCalls :
                /\ dem = c.dem
                /\ max_range_m = c.max_range_m
                /\ step_m = c.step_m
                /\ refine_steps = c.refine_steps
                /\ ray_origin = c.o
                /\ ray_dir = c.dir
          /\ pc = "intersect"
    /\ eff = [yaw |-> 0, pitch |-> 0, roll |-> 0]
    /\ d = <<0, 0, 0>>
    /\ t = 0
    /\ t_prev = 0
    /\ elev_prev = Finite(0)
    /\ lo = 0
    /\ hi = 0
    /\ val_lo = 0
    /\ val_mid = None
    /\ iter = 0
    /\ result = NoHit
    /\ samples = 0

---------------------------------------------------------------------------
(* image_ray *)

\* lines 139-140: the Python division by a zero focal length raises
ImageRayDivides(intr) == intr.fx # 0 /\ intr.fy # 0

ImageRay ==
    /\ pc = "image_ray"
    /\ ImageRayDivides(cam.intr)
    /\ eff' = [yaw |-> EffectiveYaw(cam.ptz, cam.extr),
               pitch |-> EffectivePitch(cam.ptz, cam.extr),
               roll |-> EffectiveRoll(cam.ptz, cam.extr)]
    /\ ray_origin' = ImageRayOrigin(cam.extr)
    /\ ray_dir' = ImageRayDir(cam.u, cam.v, cam.intr, cam.ptz, cam.extr)
    /\ pc' = "intersect"
    /\ UNCHANGED <<geo, ui, ext, inputs, march, bisect, result, samples>>

\* lines 139-140 with fx = 0 or fy = 0: ZeroDivisionError leaves image_ray
ImageRayRaises ==
    /\ pc = "image_ray"
    /\ ~ImageRayDivides(cam.intr)
    /\ pc' = "ZeroDivisionError"
    /\ UNCHANGED <<geo, ui, ext, inputs, eff, ray, march, bisect, result, samples>>

---------------------------------------------------------------------------
(* intersect_ray_with_dem *)

\* lines 176-189: the sample at the origin and the first march sample
Begin ==
    /\ pc = "intersect"
    /\ d' = UnitDir(ray_dir)
    /\ t_prev' = 0
    /\ elev_prev' = FirstAnchor([Q EXCEPT !.d = d'])
    /\ t' = StepTicks(Q)
    /\ pc' = "march"
    /\ samples' = 1
    /\ UNCHANGED <<geo, ui, ext, inputs, eff, ray, bisect, result>>

\* elevation samples after which a march is followed no further
MaxSamples == 30

\* the march is followed for MaxSamples samples
MarchBounded == samples < MaxSamples

\* lines 193-195 with the skipped sample taken as the anchor position
MarchSkipMovesAnchor ==
    /\ pc = "march"
    /\ MarchBounded
    /\ InRange(Q, t)
    /\ ~IsValid(ElevAt(Q, t))
    /\ t_prev' = t
    /\ t' = t + StepTicks(Q)
    /\ samples' = samples + 1
    /\ UNCHANGED <<geo, ui, ext, inputs, eff, ray, d, elev_prev, bisect, result, pc>>

\* lines 193-195: no data at the sample
MarchSkip ==
    /\ pc = "march"
    /\ MarchBounded
    /\ InRange(Q, t)
    /\ ~IsValid(ElevAt(Q, t))
    /\ t' = t + StepTicks(Q)
    /\ samples' = samples + 1
    /\ UNCHANGED <<geo, ui, ext, inputs, eff, ray, d, t_prev, elev_prev, bisect, result, pc>>

\* lines 197-201: the sample brackets a crossing with the anchor
MarchCross ==
    /\ pc = "march"
    /\ InRange(Q, t)
    /\ IsValid(ElevAt(Q, t))
    /\ Crossing(Q, t_prev, elev_prev, t)
    /\ lo' = t_prev
    /\ hi' = t
    /\ val_lo' = PrevVal(Q, t_prev, elev_prev)
    /\ iter' = 0
    /\ pc' = "refine"
    /\ samples' = samples + 1
    /\ UNCHANGED <<geo, ui, ext, inputs, eff, ray, march, val_mid, result>>

\* lines 220-221: no crossing, the sample becomes the anchor
MarchAdvance ==
    /\ pc = "march"
    /\ MarchBounded
    /\ InRange(Q, t)
    /\ IsValid(ElevAt(Q, t))
    /\ ~Crossing(Q, t_prev, elev_prev, t)
    /\ t_prev' = t
    /\ elev_prev' = ElevAt(Q, t)
    /\ t' = t + StepTicks(Q)
    /\ samples' = samples + 1
    /\ UNCHANGED <<geo, ui, ext, inputs, eff, ray, d, bisect, result, pc>>

\* line 223: the range is exhausted
ReturnNone ==
    /\ pc = "march"
    /\ ~InRange(Q, t)
    /\ result' = NoHit
    /\ pc' = "done"
    /\ UNCHANGED <<geo, ui, ext, inputs, eff, ray, march, bisect, samples>>

\* the loop left as soon as the midpoint error is below 0.01
RefineGuardTolerance ==
    iter < refine_steps /\ ~(val_mid.some /\ Abs(val_mid.v) < 10)

\* the loop `for _ in range(refine_steps)` has iterations left
RefineGuard == iter < refine_steps

\* lines 206-208 with the interval collapsed from the upper end
RefineInvalidMovesHi ==
    /\ pc = "refine"
    /\ iter < refine_steps
    /\ ~IsValid(ElevAt(Q, Mid(lo, hi)))
    /\ hi' = Mid(lo, hi)
    /\ val_mid' = None
    /\ iter' = iter + 1
    /\ samples' = samples + 1
    /\ UNCHANGED <<geo, ui, ext, inputs, eff, ray, march, lo, val_lo, result, pc>>

\* lines 206-208: no data at the midpoint
RefineInvalid ==
    /\ pc = "refine"
    /\ RefineGuard
    /\ ~IsValid(ElevAt(Q, Mid(lo, hi)))
    /\ lo' = Mid(lo, hi)
    /\ val_mid' = None
    /\ iter' = iter + 1
    /\ samples' = samples + 1
    /\ UNCHANGED <<geo, ui, ext, inputs, eff, ray, march, hi, val_lo, result, pc>>

\* lines 209-211: the crossing is in the lower half
RefineHi ==
    /\ pc = "refine"
    /\ RefineGuard
    /\ IsValid(ElevAt(Q, Mid(lo, hi)))
    /\ ProdNonPos(val_lo, CurrVal(Q, Mid(lo, hi)))
    /\ hi' = Mid(lo, hi)
    /\ val_mid' = Some(CurrVal(Q, Mid(lo, hi)))
    /\ iter' = iter + 1
    /\ samples' = samples + 1
    /\ UNCHANGED <<geo, ui, ext, inputs, eff, ray, march, lo, val_lo, result, pc>>

\* lines 212-213: the crossing is in the upper half
RefineLo ==
    /\ pc = "refine"
    /\ RefineGuard
    /\ IsValid(ElevAt(Q, Mid(lo, hi)))
    /\ ~ProdNonPos(val_lo, CurrVal(Q, Mid(lo, hi)))
    /\ lo' = Mid(lo, hi)
    /\ val_lo' = CurrVal(Q, Mid(lo, hi))
    /\ val_mid' = Some(CurrVal(Q, Mid(lo, hi)))
    /\ iter' = iter + 1
    /\ samples' = samples + 1
    /\ UNCHANGED <<geo, ui, ext, inputs, eff, ray, march, hi, result, pc>>

\* lines 214-218: the loop is over, the hit is returned
ReturnHit ==
    /\ pc = "refine"
    /\ ~RefineGuard
    /\ result' = HitAt(Q, hi)
    /\ pc' = "done"
    /\ samples' = samples + 1
    /\ UNCHANGED <<geo, ui, ext, inputs, eff, ray, march, bisect>>

Next ==
    \/ ImageRay
    \/ ImageRayRaises
    \/ Begin
    \/ MarchSkip
    \/ MarchCross
    \/ MarchAdvance
    \/ ReturnNone
    \/ RefineInvalid
    \/ RefineHi
    \/ RefineLo
    \/ ReturnHit

Spec == Init /\ [][Next]_vars

---------------------------------------------------------------------------
(* intersect_ray_with_dem called with any step_m: positive, zero, negative *)

\* [dem, max_range_m, step_m, refine_steps, o, dir] of calls whose step_m
\* is not checked by the caller
AnyStepCalls ==
    { [dem |-> dm, max_range_m |-> 100, step_m |-> st, refine_steps |-> rs,
       o |-> o, dir |-> rd] :
        dm \in MetricDems, st \in {20, 5, 0, -20}, rs \in {0, 3},
        o \in RayOrigins, rd \in RayDirs }

InitMarch ==
    /\ GeoIdle
    /\ UiIdle
    /\ ExtIdle
    /\ cam = NoCamera
    /\ \E c \in AnyStepCalls :
          /\ dem = c.dem
          /\ max_range_m = c.max_range_m
          /\ step_m = c.step_m
          /\ refine_steps = c.refine_steps
          /\ ray_origin = c.o
          /\ ray_dir = c.dir
    /\ pc = "intersect"
    /\ eff = [yaw |-> 0, pitch |-> 0, roll |-> 0]
    /\ d = <<0, 0, 0>>
    /\ t = 0
    /\ t_prev = 0
    /\ elev_prev = Finite(0)
    /\ lo = 0
    /\ hi = 0
    /\ val_lo = 0
    /\ val_mid = None
    /\ iter = 0
    /\ result = NoHit
    /\ samples = 0

\* lines 176-223: one step of intersect_ray_with_dem
NextMarch ==
    \/ Begin
    \/ MarchSkip
    \/ MarchCross
    \/ MarchAdvance
    \/ ReturnNone
    \/ RefineInvalid
    \/ RefineHi
    \/ RefineLo
    \/ ReturnHit

SpecMarch == InitMarch /\ [][NextMarch]_vars

\* the state machine computes the function Intersect
ResultIsIntersect ==
    pc = "done" =>
        result = Intersect(ray_origin, ray_dir, dem, max_range_m, step_m, refine_steps)

---------------------------------------------------------------------------
(* geom3d.py: GeoRef.                                                      *)
(* Latitudes and longitudes are integers in units of 1e-7 degree, local     *)
(* and projected coordinates and altitudes integers in units of 1/Scale m.  *)

\* units of latitude or longitude in one degree
DegUnits == 10^7

\* thousandths of a millimetre in one unit of latitude: R * radians(1e-7)
\* with R = 6378137.0 is 11.132 mm
MicroMetresPerUnit == 11132

\* Python's truth value of an Optional[int]: None and 0 are falsy
Truthy(f) == f.some /\ f.v # 0

\* _geodetic_dxdy(lat0, lon0, lat, lon) -> (x, y), lat0 a multiple of 5 degrees
GeodeticDxDy(lat0, lon0, lat, lon) ==
    LET east == RDiv((lon - lon0) * MicroMetresPerUnit, 1000)
    IN  << RDiv(east * Cos(lat0 \div DegUnits), Scale),
           RDiv((lat - lat0) * MicroMetresPerUnit, 1000) >>

\* _geodetic_dxdy_inv(lat0, lon0, dx, dy) -> (lat, lon)
GeodeticDxDyInv(lat0, lon0, dx, dy) ==
    << lat0 + RDiv(dy * 1000, MicroMetresPerUnit),
       lon0 + RDiv(RDiv(dx * Scale, Cos(lat0 \div DegUnits)) * 1000, MicroMetresPerUnit) >>

\* Transformer.from_crs("EPSG:4326", f"EPSG:{epsg}", always_xy=True)
\* .transform(lon, lat) -> (X, Y), for the equidistant cylindrical CRS
\* EPSG:4087 on the WGS 84 radius: X = R * lon, Y = R * lat
ProjTransform(epsg, lon, lat) ==
    << RDiv(lon * MicroMetresPerUnit, 1000), RDiv(lat * MicroMetresPerUnit, 1000) >>

\* Transformer.from_crs(f"EPSG:{epsg}", "EPSG:4326", always_xy=True)
\* .transform(X, Y) -> (lon, lat)
ProjTransformInv(epsg, X, Y) ==
    << RDiv(X * 1000, MicroMetresPerUnit), RDiv(Y * 1000, MicroMetresPerUnit) >>

GeoRef(origin_lat, origin_lon, origin_alt, yaw_site, projected_epsg) ==
    [origin_lat |-> origin_lat, origin_lon |-> origin_lon, origin_alt |-> origin_alt,
     yaw_site_deg |-> yaw_site, projected_epsg |-> projected_epsg]

\* the planar offset of (lat, lon) from the origin, lines 177-184
PlanarOffset(g, lat, lon) ==
    IF Truthy(g.projected_epsg)
    THEN LET O == ProjTransform(g.projected_epsg.v, g.origin_lon, g.origin_lat)
             P == ProjTransform(g.projected_epsg.v, lon, lat)
         IN  <<P[1] - O[1], P[2] - O[2]>>
    ELSE GeodeticDxDy(g.origin_lat, g.origin_lon, lat, lon)

\* geographic_to_local with the site rotation applied the way
\* local_to_geographic applies it
GeographicToLocalSameRotation(g, lat, lon, alt) ==
    LET dxy == PlanarOffset(g, lat, lon)
        c == Cos(g.yaw_site_deg)
        s == Sin(g.yaw_site_deg)
    IN  << RDiv(c * dxy[1] - s * dxy[2], Scale),
           RDiv(s * dxy[1] + c * dxy[2], Scale),
           alt - g.origin_alt >>

\* GeoRef.geographic_to_local(lat, lon, alt) -> (x, y, z)
GeographicToLocal(g, lat, lon, alt) ==
    LET dxy == PlanarOffset(g, lat, lon)
        c == Cos(g.yaw_site_deg)
        s == Sin(g.yaw_site_deg)
    IN  << RDiv(c * dxy[1] + s * dxy[2], Scale),
           RDiv(-s * dxy[1] + c * dxy[2], Scale),
           alt - g.origin_alt >>

\* lines 196-199: the site rotation undone, (x, y) -> (dx, dy)
SiteUnrotate(g, x, y) ==
    LET c == Cos(g.yaw_site_deg)
        s == Sin(g.yaw_site_deg)
    IN  << RDiv(c * x - s * y, Scale), RDiv(s * x + c * y, Scale) >>

\* GeoRef.local_to_geographic(p)["lla"]
LocalToGeographic(g, p) ==
    LET dxy == SiteUnrotate(g, p[1], p[2])
        alt == g.origin_alt + p[3]
    IN  IF Truthy(g.projected_epsg)
        THEN LET O == ProjTransform(g.projected_epsg.v, g.origin_lon, g.origin_lat)
                 ll == ProjTransformInv(g.projected_epsg.v, O[1] + dxy[1], O[2] + dxy[2])
             IN  [lat |-> ll[2], lon |-> ll[1], alt |-> alt]
        ELSE LET ll == GeodeticDxDyInv(g.origin_lat, g.origin_lon, dxy[1], dxy[2])
             IN  [lat |-> ll[1], lon |-> ll[2], alt |-> alt]

---------------------------------------------------------------------------
(* dtm.py: DTM.info.crs_epsg and DTM.sample *)

\* DTM.contains and DTM.sample(x, y) on a one-row raster of cells of width
\* cellw between left and right: None outside the bounds and on nodata
DtmSample(dm, X, Y) ==
    IF ~(X >= dm.left /\ X <= dm.right /\ Y >= dm.bottom /\ Y <= dm.top) THEN NoSample
    ELSE LET c == (X - dm.left) \div dm.cellw + 1
             col == IF c > Len(dm.cells) THEN Len(dm.cells) ELSE c
         IN  IF dm.cells[col] = NoData THEN NoSample ELSE Finite(dm.cells[col])

---------------------------------------------------------------------------
(* geom3d.py: intersect_ray_with_dtm(o, d, dtm, georef, t_min = 0.0, t_max, *)
(* step).  The ray parameter is counted in ticks of step / 2^26, so that    *)
(* the march samples, the 25 midpoints and the returned 0.5 * (lo + hi) are *)
(* exact.                                                                   *)

\* `for _ in range(25)`
DtmRefineIters == 25

DtmStepTicks == Pow2(DtmRefineIters + 1)

DtmHalfBits == (DtmRefineIters + 1) \div 2

\* floor(a * b / 2^26) for 0 <= b < 2^26 and |a| <= 10^5
WideShiftMul(a, b) ==
    (a * (b \div Pow2(DtmHalfBits)) + (a * (b % Pow2(DtmHalfBits))) \div Pow2(DtmHalfBits))
        \div Pow2(DtmHalfBits)

\* o + d * t at tt ticks, d in units of 1/Scale and step in metres
DtmPos(c, tt) ==
    [i \in 1..3 |->
        c.o[i] + (c.d[i] * c.step) * (tt \div DtmStepTicks)
               + WideShiftMul(c.d[i] * c.step, tt % DtmStepTicks)]

\* lines 250-257: local_to_proj(x, y) = (X0 + dx, Y0 + dy)
LocalToProj(g, x, y) ==
    LET O == ProjTransform(g.projected_epsg.v, g.origin_lon, g.origin_lat)
        dxy == SiteUnrotate(g, x, y)
    IN  <<O[1] + dxy[1], O[2] + dxy[2]>>

\* dtm.sample(*local_to_proj(p[0], p[1])) for p = o + d * t
DtmSampleAt(c, g, dm, tt) ==
    LET p == DtmPos(c, tt)
        XY == LocalToProj(g, p[1], p[2])
    IN  DtmSample(dm, XY[1], XY[2])

\* lines 242-246: the GeoRef the march uses
GeoRefForDtm(g, dm) ==
    IF g.projected_epsg = None /\ Truthy(dm.crs_epsg)
    THEN GeoRef(g.origin_lat, g.origin_lon, g.origin_alt, g.yaw_site_deg, dm.crs_epsg)
    ELSE g

\* lines 242-248: no EPSG in the GeoRef and none in the DTM
DtmNoCrs(g, dm) == g.projected_epsg = None /\ ~Truthy(dm.crs_epsg)

DtmNone == [kind |-> "None", p |-> <<0, 0, 0>>]
DtmPoint(p) == [kind |-> "point", p |-> p]

\* `while t <= t_max` at the march sample tt
DtmInRange(c, tt) == (tt \div DtmStepTicks) * c.step <= c.t_max

\* (prev_p[2] - z_prev) * (p[2] - z) <= 0 for the sample z at tt
DtmCrossing(c, tp, zp, tt, z) ==
    ProdNonPos(Val(DtmPos(c, tp)[3], zp), Val(DtmPos(c, tt)[3], z))

DtmMid == (dtm_lo + dtm_hi) \div 2

---------------------------------------------------------------------------
(* Inputs of the geom3d calls *)

RoundTripGeoRefs ==
    { GeoRef(lat * DegUnits, 35 * DegUnits, alt, yw, None) :
        lat \in {0, 30, -60}, alt \in {0, 120 * Scale}, yw \in {0, 30, -45, 90} }
    \cup
    { GeoRef(20000, 10000, alt, yw, e) :
        alt \in {0, 120 * Scale}, yw \in {0, 30, -45, 90}, e \in {Some(4087), Some(0)} }

LocalPoints ==
    { <<0, 0, 0>>, <<100 * Scale, 0, 5 * Scale>>, <<-25 * Scale, 70 * Scale, -3 * Scale>>,
      <<1, -1, 1>>, <<40 * Scale + 7, 40 * Scale + 3, 0>> }

DtmGeoRefs ==
    { GeoRef(20000, 10000, 0, yw, e) : yw \in {0, 90}, e \in {None, Some(4087)} }

\* DTMs of NumCells cells of 20 m around the projected origin of DtmGeoRefs
Dtms ==
    LET O == ProjTransform(4087, 10000, 20000)
    IN  { [crs_epsg |-> e, left |-> O[1] - 30 * Scale,
           right |-> O[1] - 30 * Scale + NumCells * 20 * Scale,
           bottom |-> O[2] - 30 * Scale, top |-> O[2] + 30 * Scale,
           cellw |-> 20 * Scale, cells |-> c] :
            e \in {None, Some(4087)}, c \in [1..NumCells -> CellValues] }

DtmRays ==
    { [o |-> o, d |-> dd, t_max |-> 20, step |-> 5] :
        o \in { <<0, 0, 10 * Scale>>, <<0, 0, -3 * Scale>> },
        dd \in { <<707, 0, -707>>, <<0, 0, -1000>>, <<1000, 0, 0>>, <<-707, 0, -707>> } }
    \cup
    { [o |-> <<0, 0, 10 * Scale>>, d |-> <<600, 0, -800>>, t_max |-> 10, step |-> 2] }

NoDtm ==
    [crs_epsg |-> None, left |-> 0, right |-> 0, bottom |-> 0, top |-> 0,
     cellw |-> 1, cells |-> <<>>]

NoDtmRay == [o |-> <<0, 0, 0>>, d |-> <<0, 0, 0>>, t_max |-> 0, step |-> 0]

InitGeo ==
    /\ CoreIdle
    /\ UiIdle
    /\ ExtIdle
    /\ geo_lla = [lat |-> 0, lon |-> 0, alt |-> 0]
    /\ geo_local = <<0, 0, 0>>
    /\ dtm_prev_t = 0
    /\ dtm_z_prev = NoSample
    /\ dtm_t = 0
    /\ dtm_lo = 0
    /\ dtm_hi = 0
    /\ dtm_iter = 0
    /\ dtm_result = DtmNone
    /\ \/ /\ georef \in RoundTripGeoRefs
          /\ geo_p \in LocalPoints
          /\ dtm = NoDtm
          /\ dtm_ray = NoDtmRay
          /\ geo_pc = "local_to_geographic"
       \/ /\ georef \in DtmGeoRefs
          /\ geo_p = <<0, 0, 0>>
          /\ dtm \in Dtms
          /\ dtm_ray \in DtmRays
          /\ geo_pc = "intersect_ray_with_dtm"

---------------------------------------------------------------------------
(* GeoRef.local_to_geographic followed by GeoRef.geographic_to_local *)

LocalToGeographicCall ==
    /\ geo_pc = "local_to_geographic"
    /\ geo_lla' = LocalToGeographic(georef, geo_p)
    /\ geo_pc' = "geographic_to_local"
    /\ UNCHANGED <<core, ui, ext, georef, geo_p, geo_local, dtm, dtm_ray, dtm_prev_t,
                   dtm_z_prev, dtm_t, dtm_lo, dtm_hi, dtm_iter, dtm_result>>

GeographicToLocalCall ==
    /\ geo_pc = "geographic_to_local"
    /\ geo_local' = GeographicToLocal(georef, geo_lla.lat, geo_lla.lon, geo_lla.alt)
    /\ geo_pc' = "round_trip_done"
    /\ UNCHANGED <<core, ui, ext, georef, geo_p, geo_lla, dtm, dtm_ray, dtm_prev_t,
                   dtm_z_prev, dtm_t, dtm_lo, dtm_hi, dtm_iter, dtm_result>>

---------------------------------------------------------------------------
(* intersect_ray_with_dtm *)

\* lines 242-248: `return None` when neither the GeoRef nor the DTM has an EPSG
DtmReturnNoCrs ==
    /\ geo_pc = "intersect_ray_with_dtm"
    /\ DtmNoCrs(georef, dtm)
    /\ dtm_result' = DtmNone
    /\ geo_pc' = "dtm_done"
    /\ UNCHANGED <<core, ui, ext, georef, geo_p, geo_lla, geo_local, dtm, dtm_ray,
                   dtm_prev_t, dtm_z_prev, dtm_t, dtm_lo, dtm_hi, dtm_iter>>

\* lines 242-268: the GeoRef completed from the DTM, the sample at t_min
DtmBegin ==
    /\ geo_pc = "intersect_ray_with_dtm"
    /\ ~DtmNoCrs(georef, dtm)
    /\ georef' = GeoRefForDtm(georef, dtm)
    /\ dtm_prev_t' = 0
    /\ dtm_z_prev' = LET z == DtmSampleAt(dtm_ray, georef', dtm, 0)
                     IN  IF z = NoSample THEN Substituted ELSE z
    /\ dtm_t' = DtmStepTicks
    /\ geo_pc' = "dtm_march"
    /\ UNCHANGED <<core, ui, ext, geo_p, geo_lla, geo_local, dtm, dtm_ray, dtm_lo, dtm_hi,
                   dtm_iter, dtm_result>>

\* lines 273-275: no sample at t
DtmMarchSkip ==
    /\ geo_pc = "dtm_march"
    /\ DtmInRange(dtm_ray, dtm_t)
    /\ DtmSampleAt(dtm_ray, georef, dtm, dtm_t) = NoSample
    /\ dtm_t' = dtm_t + DtmStepTicks
    /\ UNCHANGED <<core, ui, ext, georef, geo_p, geo_lla, geo_local, dtm, dtm_ray,
                   dtm_prev_t, dtm_z_prev, dtm_lo, dtm_hi, dtm_iter, dtm_result, geo_pc>>

\* lines 276-278: a crossing between prev_t and t
DtmMarchCross ==
    /\ geo_pc = "dtm_march"
    /\ DtmInRange(dtm_ray, dtm_t)
    /\ LET z == DtmSampleAt(dtm_ray, georef, dtm, dtm_t)
       IN  /\ z # NoSample
           /\ DtmCrossing(dtm_ray, dtm_prev_t, dtm_z_prev, dtm_t, z)
    /\ dtm_lo' = dtm_prev_t
    /\ dtm_hi' = dtm_t
    /\ dtm_iter' = 0
    /\ geo_pc' = "dtm_refine"
    /\ UNCHANGED <<core, ui, ext, georef, geo_p, geo_lla, geo_local, dtm, dtm_ray,
                   dtm_prev_t, dtm_z_prev, dtm_t, dtm_result>>

\* lines 293-294: no crossing, the sample becomes the anchor
DtmMarchAdvance ==
    /\ geo_pc = "dtm_march"
    /\ DtmInRange(dtm_ray, dtm_t)
    /\ LET z == DtmSampleAt(dtm_ray, georef, dtm, dtm_t)
       IN  /\ z # NoSample
           /\ ~DtmCrossing(dtm_ray, dtm_prev_t, dtm_z_prev, dtm_t, z)
           /\ dtm_z_prev' = z
    /\ dtm_prev_t' = dtm_t
    /\ dtm_t' = dtm_t + DtmStepTicks
    /\ UNCHANGED <<core, ui, ext, georef, geo_p, geo_lla, geo_local, dtm, dtm_ray,
                   dtm_lo, dtm_hi, dtm_iter, dtm_result, geo_pc>>

\* line 296: `return None` when t_max is passed
DtmReturnNone ==
    /\ geo_pc = "dtm_march"
    /\ ~DtmInRange(dtm_ray, dtm_t)
    /\ dtm_result' = DtmNone
    /\ geo_pc' = "dtm_done"
    /\ UNCHANGED <<core, ui, ext, georef, geo_p, geo_lla, geo_local, dtm, dtm_ray,
                   dtm_prev_t, dtm_z_prev, dtm_t, dtm_lo, dtm_hi, dtm_iter>>

\* lines 284-286: no sample at the midpoint
DtmRefineInvalid ==
    /\ geo_pc = "dtm_refine"
    /\ dtm_iter < DtmRefineIters
    /\ DtmSampleAt(dtm_ray, georef, dtm, DtmMid) = NoSample
    /\ dtm_lo' = DtmMid
    /\ dtm_iter' = dtm_iter + 1
    /\ UNCHANGED <<core, ui, ext, georef, geo_p, geo_lla, geo_local, dtm, dtm_ray,
                   dtm_prev_t, dtm_z_prev, dtm_t, dtm_hi, dtm_result, geo_pc>>

\* lines 287-288: the crossing is below the midpoint
DtmRefineHi ==
    /\ geo_pc = "dtm_refine"
    /\ dtm_iter < DtmRefineIters
    /\ LET z == DtmSampleAt(dtm_ray, georef, dtm, DtmMid)
       IN  /\ z # NoSample
           /\ DtmCrossing(dtm_ray, dtm_prev_t, dtm_z_prev, DtmMid, z)
    /\ dtm_hi' = DtmMid
    /\ dtm_iter' = dtm_iter + 1
    /\ UNCHANGED <<core, ui, ext, georef, geo_p, geo_lla, geo_local, dtm, dtm_ray,
                   dtm_prev_t, dtm_z_prev, dtm_t, dtm_lo, dtm_result, geo_pc>>

\* lines 289-291: the midpoint becomes the anchor and the lower end
DtmRefineLo ==
    /\ geo_pc = "dtm_refine"
    /\ dtm_iter < DtmRefineIters
    /\ LET z == DtmSampleAt(dtm_ray, georef, dtm, DtmMid)
       IN  /\ z # NoSample
           /\ ~DtmCrossing(dtm_ray, dtm_prev_t, dtm_z_prev, DtmMid, z)
           /\ dtm_z_prev' = z
    /\ dtm_prev_t' = DtmMid
    /\ dtm_lo' = DtmMid
    /\ dtm_iter' = dtm_iter + 1
    /\ UNCHANGED <<core, ui, ext, georef, geo_p, geo_lla, geo_local, dtm, dtm_ray,
                   dtm_t, dtm_hi, dtm_result, geo_pc>>

\* line 292: `return o + d * 0.5 * (lo + hi)`
DtmReturnPoint ==
    /\ geo_pc = "dtm_refine"
    /\ dtm_iter = DtmRefineIters
    /\ dtm_result' = DtmPoint(DtmPos(dtm_ray, DtmMid))
    /\ geo_pc' = "dtm_done"
    /\ UNCHANGED <<core, ui, ext, georef, geo_p, geo_lla, geo_local, dtm, dtm_ray,
                   dtm_prev_t, dtm_z_prev, dtm_t, dtm_lo, dtm_hi, dtm_iter>>

NextGeo ==
    \/ LocalToGeographicCall
    \/ GeographicToLocalCall
    \/ DtmReturnNoCrs
    \/ DtmBegin
    \/ DtmMarchSkip
    \/ DtmMarchCross
    \/ DtmMarchAdvance
    \/ DtmReturnNone
    \/ DtmRefineInvalid
    \/ DtmRefineHi
    \/ DtmRefineLo
    \/ DtmReturnPoint

SpecGeo == InitGeo /\ [][NextGeo]_vars

---------------------------------------------------------------------------
(* ui_img2ground_module.py: angle helpers.                                 *)
(* Angles are integers in units of half a degree.  The code's angles are    *)
(* IEEE doubles: a sum or difference is rounded to the nearest double.  The *)
(* model keeps that rounding with a significand of MantissaBits bits in     *)
(* place of 53, so that it stays within the integers TLC handles: numbers   *)
(* below 2^MantissaBits are exact, larger ones are multiples of their ulp.  *)

Deg(n) == 2 * n

\* bits of the significand of a float (53 in the code)
MantissaBits == 12

RECURSIVE BitLen(_)
BitLen(n) == IF n = 0 THEN 0 ELSE 1 + BitLen(n \div 2)

\* the spacing of the floats around x
Ulp(x) ==
    LET e == BitLen(Abs(x)) - MantissaBits
    IN  IF e <= 0 THEN 1 ELSE Pow2(e)

\* x rounded to the nearest float, ties to the even significand
FRound(x) ==
    LET q == Ulp(x)
        m == x \div q
        r == x - m * q
    IN  IF 2 * r < q THEN m * q
        ELSE IF 2 * r > q THEN (m + 1) * q
        ELSE IF m % 2 = 0 THEN m * q ELSE (m + 1) * q

\* a + b and a - b in floats
FAdd(a, b) == FRound(a + b)
FSub(a, b) == FRound(a - b)

\* 0.5 * x, exact in floats; x is a whole number of degrees
FHalf(x) == x \div 2

RECURSIVE NormalizeUp(_)
\* line 91: while a <= -180.0: a += 360.0
NormalizeUp(a) == IF a <= -Deg(180) THEN NormalizeUp(FAdd(a, Deg(360))) ELSE a

RECURSIVE NormalizeDown(_)
\* line 92: while a > 180.0: a -= 360.0
NormalizeDown(a) == IF a > Deg(180) THEN NormalizeDown(FSub(a, Deg(360))) ELSE a

\* _normalize_angle_deg(a), for an a on which its loops end
NormalizeAngleDeg(a) == NormalizeDown(NormalizeUp(a))

\* _angle_diff_deg(a, b)
AngleDiffDeg(a, b) == NormalizeAngleDeg(FSub(a, b))

\* the mean of a and b taken without regard to the seam
MidYawPlain(a, b) == NormalizeAngleDeg(FHalf(FAdd(a, b)))

\* _mid_yaw_deg(a, b)
MidYawDeg(a, b) ==
    LET da == AngleDiffDeg(b, a)
    IN  NormalizeAngleDeg(FAdd(a, FHalf(da)))

\* the bearings math.atan2 is evaluated to: whole multiples of 5 degrees
Bearings == { 5 * k : k \in -35..36 }

\* math.degrees(math.atan2(dx, dy)) in whole degrees: the bearing in
\* (-180, 180] nearest to the direction (dx, dy), 0 for dx = dy = 0
Atan2Deg(dx, dy) ==
    IF dx = 0 /\ dy = 0 THEN 0
    ELSE LET along == [b \in Bearings |-> dx * Sin(b) + dy * Cos(b)]
         IN  CHOOSE b \in Bearings :
                \A o \in Bearings :
                    along[b] > along[o] \/ (along[b] = along[o] /\ b >= o)

---------------------------------------------------------------------------
(* calibration_utils.py *)

\* azimuth_from_ortho_points without the wrap into [0, 360)
AzimuthUnwrapped(x1, y1, x2, y2) == Deg(Atan2Deg(x2 - x1, y2 - y1))

\* azimuth_from_ortho_points(x1, y1, x2, y2) = (ang + 360.0) % 360.0
AzimuthFromOrthoPoints(x1, y1, x2, y2) ==
    FAdd(Deg(Atan2Deg(x2 - x1, y2 - y1)), Deg(360)) % Deg(360)

\* roll_error_from_horizon(y_left, y_right, width) =
\* math.degrees(math.atan2(float(y_right) - float(y_left), float(width)))
RollErrorFromHorizon(y_left, y_right, width) == Deg(Atan2Deg(y_right - y_left, width))

---------------------------------------------------------------------------
(* ui_img2ground_module.py: homography helpers.  The entries of a          *)
(* homography are integers in units of 1/HUnit, pixels are whole pixels,    *)
(* scene coordinates integers in units of 1/Scale.                          *)

HUnit == 10^2

\* min(len(src), len(dst)) with the scene points not counted
NumPairsSrcOnly(src, dst) == Len(src)

\* line 67: n = min(len(src), len(dst))
NumPairs(src, dst) == IF Len(src) < Len(dst) THEN Len(src) ELSE Len(dst)

\* lines 77-78: H / H[2, 2] when abs(H[2, 2]) > 1e-12
NormalizeH(raw) ==
    IF raw[3][3] # 0
    THEN [i \in 1..3 |-> [j \in 1..3 |-> RDiv(raw[i][j] * HUnit, raw[3][3])]]
    ELSE raw

\* no matrix: self._H = None, and what a call that raised returns
NoMatrix == [some |-> FALSE, v |-> <<>>]

Raised(e) == [raised |-> TRUE, error |-> e, value |-> NoMatrix]
Returns(x) == [raised |-> FALSE, error |-> "", value |-> Some(x)]

\* _homography_from_points(src, dst); svd is the null vector numpy's SVD
\* finds for the pairs, a multiple of the homography through them
HomographyFromPoints(src, dst, svd) ==
    IF NumPairs(src, dst) < 4 THEN Raised("ValueError")
    ELSE Returns(NormalizeH(svd))

\* w = H[2, 0] * u + H[2, 1] * v + H[2, 2], in units of 1/HUnit
HomographyW(Hm, u, v) == Hm[3][1] * u + Hm[3][2] * v + Hm[3][3]

\* abs(w) < 1e-12, for a w that is a multiple of 1/HUnit
Degenerate(w) == w = 0

NaNPair == [nan |-> TRUE, x |-> 0, y |-> 0]
FinitePair(x, y) == [nan |-> FALSE, x |-> x, y |-> y]

\* _apply_homography with a point returned where the mapping is degenerate
ApplyHomographyGuess(Hm, u, v) ==
    LET x == Hm[1][1] * u + Hm[1][2] * v + Hm[1][3]
        y == Hm[2][1] * u + Hm[2][2] * v + Hm[2][3]
        w == HomographyW(Hm, u, v)
    IN  IF Degenerate(w) THEN FinitePair(0, 0)
        ELSE FinitePair(RDiv(x * Scale, w), RDiv(y * Scale, w))

\* _apply_homography(H, (u, v))
ApplyHomography(Hm, u, v) ==
    LET x == Hm[1][1] * u + Hm[1][2] * v + Hm[1][3]
        y == Hm[2][1] * u + Hm[2][2] * v + Hm[2][3]
        w == HomographyW(Hm, u, v)
    IN  IF Degenerate(w) THEN NaNPair
        ELSE FinitePair(RDiv(x * Scale, w), RDiv(y * Scale, w))

NonePair == [some |-> FALSE, x |-> 0, y |-> 0]
SomePair(x, y) == [some |-> TRUE, x |-> x, y |-> y]

\* lines 1585-1590: the click in the pixels of the calibration image
CalibPixel(u, v, uv_in_calib_space, wh, video_wh) ==
    IF uv_in_calib_space THEN <<u, v>>
    ELSE << (u * wh[1]) \div video_wh[1], (v * wh[2]) \div video_wh[2] >>

\* Img2GroundModule._map_by_homography(u, v, uv_in_calib_space); the
\* orthophoto layer is loaded
MapByHomography(Hm, wh, u, v, uv_in_calib_space, video_wh) ==
    IF ~Hm.some \/ ~wh.some THEN NonePair
    ELSE LET uv == CalibPixel(u, v, uv_in_calib_space, wh.v, video_wh)
             xy == ApplyHomography(Hm.v, uv[1], uv[2])
         IN  IF xy.nan THEN NonePair ELSE SomePair(xy.x, xy.y)

---------------------------------------------------------------------------
(* Inputs of the user-interface module *)

\* homographies through the pairs picked in the dialog
HIdentity == << <<100, 0, 0>>, <<0, 100, 0>>, <<0, 0, 100>> >>
HAffine == << <<200, 0, 5000>>, <<0, 200, -1000>>, <<0, 0, 100>> >>
\* w = 1 - u/100: the pixels of column 100 map to infinity
HPerspective == << <<100, 0, 0>>, <<0, 100, 0>>, <<-1, 0, 100>> >>
\* w = u/100, H[2, 2] = 0: the pixels of column 0 map to infinity
HAtInfinity == << <<100, 0, 0>>, <<0, 100, 0>>, <<1, 0, 0>> >>

Homographies == { HIdentity, HAffine, HPerspective, HAtInfinity }

\* the null vector of the SVD is determined up to a factor
SvdScales == { 1, -3 }
SvdOf(Ht, k) == [i \in 1..3 |-> [j \in 1..3 |-> k * Ht[i][j]]]

\* pixels picked in the dialog, in picking order
PixelPicks == << <<10, 10>>, <<390, 10>>, <<390, 290>>, <<10, 290>>, <<200, 150>> >>

\* the scene points picked for them
ScenePicks(Ht) ==
    [i \in 1..Len(PixelPicks) |->
        LET xy == ApplyHomography(Ht, PixelPicks[i][1], PixelPicks[i][2])
        IN  <<xy.x, xy.y>>]

\* numbers of points picked on either side
PairCounts == { 3, 4, 5 }

\* size of the calibration image and of the video widget
CalibImageWH == <<400, 300>>
VideoWH == <<800, 600>>

\* clicks: [u, v, uv_in_calib_space]
Clicks ==
    { [u |-> c[1], v |-> c[2], uv_in_calib_space |-> s] :
        c \in { <<200, 150>>, <<100, 50>>, <<0, 0>>, <<200, 100>> }, s \in BOOLEAN }

\* entries of the mapping combo box
MappingModes == { "Auto (prefer Homography)", "Homography only", "PTZ+DTM only" }

\* arguments of _normalize_angle_deg: bearings, sums and differences of
\* bearings, and numbers too large for adding 360 to change them
HugeAngle == 3 * Pow2(MantissaBits + 9)
NormalizeArgs ==
    { Deg(n) : n \in { -900, -540, -360, -190, -180, -179, -90, 0, 45, 180,
                       181, 190, 350, 360, 540, 720, 2500 } }
        \cup { HugeAngle, -HugeAngle }

\* yaws and pans: whole degrees
YawArgs == { Deg(n) : n \in { -180, -170, -135, -90, -10, 0, 10, 45, 90, 170, 180, 350 } }

\* the camera and the points picked on the orthophoto, in projected metres
\* (the results of scene_to_geo)
CameraProj == <<1000, 2000>>
OrthoPoints ==
    { <<CameraProj[1] + e[1], CameraProj[2] + e[2]>> :
        e \in { <<0, 50>>, <<50, 0>>, <<0, -50>>, <<-50, 0>>, <<0, 1>>, <<3, 0>>,
                <<0, -7>>, <<-2, 0>>, <<30, 30>>, <<-30, -30>>, <<-40, 40>>,
                <<10, -10>>, <<0, 0>> } }

\* the points picked in the calibrations
CalibrationPoints ==
    { <<CameraProj[1] + e[1], CameraProj[2] + e[2]>> :
        e \in { <<0, 50>>, <<0, -50>>, <<-50, 0>>, <<30, 30>>, <<-30, -30>> } }

\* horizon rows and sample distances handed to roll_error_from_horizon
HorizonRows == { 100, 200, 1100 }
HorizonWidths == { 1000, 0, -1000 }

\* pan reported by the camera
PanReadings == { Deg(n) : n \in { 30, -170 } }

\* calibrations made in one session
MaxPicks == 2

\* yaw offsets stored for the active camera by earlier sessions
StoredOffsets == { 0, Deg(10) }
NoCtx == [present |-> FALSE, yaw_offset_deg |-> 0]
Ctx(off) == [present |-> TRUE, yaw_offset_deg |-> off]

NoCall == [f |-> "none"]
NothingShown == [source |-> "nothing", x |-> 0, y |-> 0]

\* Img2GroundModule after __init__, idle
InitUi ==
    /\ CoreIdle /\ GeoIdle /\ ExtIdle
    /\ H = NoMatrix /\ calib_img_wh = None /\ yaw_offset_deg = None /\ hfov_deg = None
    /\ ctx \in { NoCtx } \cup { Ctx(o) : o \in StoredOffsets }
    /\ pan_deg \in { Some(p) : p \in PanReadings }
    /\ shown = NothingShown
    /\ call = NoCall
    /\ norm_a = 0
    /\ ret = 0
    /\ picks = 0
    /\ ui_pc = "ready"

---------------------------------------------------------------------------
(* Actions of the user-interface module *)

UiRest == <<core, geo, ext>>

\* _normalize_angle_deg(a) is called
NormalizeCall ==
    /\ ui_pc = "ready"
    /\ \E a \in NormalizeArgs :
        /\ call' = [f |-> "_normalize_angle_deg", a |-> a]
        /\ norm_a' = a
    /\ ui_pc' = "normalize_up"
    /\ UNCHANGED <<UiRest, H, calib_img_wh, yaw_offset_deg, hfov_deg, ctx, pan_deg,
                   shown, ret, picks>>

\* line 91, the loop's body: a += 360.0
NormalizeUpStep ==
    /\ ui_pc = "normalize_up"
    /\ norm_a <= -Deg(180)
    /\ norm_a' = FAdd(norm_a, Deg(360))
    /\ UNCHANGED <<UiRest, H, calib_img_wh, yaw_offset_deg, hfov_deg, ctx, pan_deg,
                   shown, call, ret, picks, ui_pc>>

\* line 91, the loop's exit
NormalizeUpExit ==
    /\ ui_pc = "normalize_up"
    /\ ~(norm_a <= -Deg(180))
    /\ ui_pc' = "normalize_down"
    /\ UNCHANGED <<UiRest, H, calib_img_wh, yaw_offset_deg, hfov_deg, ctx, pan_deg,
                   shown, call, norm_a, ret, picks>>

\* line 92, the loop's body: a -= 360.0
NormalizeDownStep ==
    /\ ui_pc = "normalize_down"
    /\ norm_a > Deg(180)
    /\ norm_a' = FSub(norm_a, Deg(360))
    /\ UNCHANGED <<UiRest, H, calib_img_wh, yaw_offset_deg, hfov_deg, ctx, pan_deg,
                   shown, call, ret, picks, ui_pc>>

\* lines 92-93: the loop's exit and return a
NormalizeReturn ==
    /\ ui_pc = "normalize_down"
    /\ ~(norm_a > Deg(180))
    /\ ret' = norm_a
    /\ ui_pc' = "returned"
    /\ UNCHANGED <<UiRest, H, calib_img_wh, yaw_offset_deg, hfov_deg, ctx, pan_deg,
                   shown, call, norm_a, picks>>

\* _angle_diff_deg(a, b)
AngleDiffCall ==
    /\ ui_pc = "ready"
    /\ \E a \in YawArgs, b \in YawArgs :
        /\ call' = [f |-> "_angle_diff_deg", a |-> a, b |-> b]
        /\ ret' = AngleDiffDeg(a, b)
    /\ ui_pc' = "returned"
    /\ UNCHANGED <<UiRest, H, calib_img_wh, yaw_offset_deg, hfov_deg, ctx, pan_deg,
                   shown, norm_a, picks>>

\* _mid_yaw_deg(a, b)
MidYawCall ==
    /\ ui_pc = "ready"
    /\ \E a \in YawArgs, b \in YawArgs :
        /\ call' = [f |-> "_mid_yaw_deg", a |-> a, b |-> b]
        /\ ret' = MidYawDeg(a, b)
    /\ ui_pc' = "returned"
    /\ UNCHANGED <<UiRest, H, calib_img_wh, yaw_offset_deg, hfov_deg, ctx, pan_deg,
                   shown, norm_a, picks>>

\* calibration_utils.azimuth_from_ortho_points(x1, y1, x2, y2)
AzimuthFromOrthoPointsCall ==
    /\ ui_pc = "ready"
    /\ \E p \in OrthoPoints :
        /\ call' = [f |-> "azimuth_from_ortho_points", x1 |-> CameraProj[1],
                    y1 |-> CameraProj[2], x2 |-> p[1], y2 |-> p[2]]
        /\ ret' = AzimuthFromOrthoPoints(CameraProj[1], CameraProj[2], p[1], p[2])
    /\ ui_pc' = "returned"
    /\ UNCHANGED <<UiRest, H, calib_img_wh, yaw_offset_deg, hfov_deg, ctx, pan_deg,
                   shown, norm_a, picks>>

\* calibration_utils.roll_error_from_horizon(y_left, y_right, width)
RollErrorFromHorizonCall ==
    /\ ui_pc = "ready"
    /\ \E yl \in HorizonRows, yr \in HorizonRows, w \in HorizonWidths :
        /\ call' = [f |-> "roll_error_from_horizon", y_left |-> yl, y_right |-> yr,
                    width |-> w]
        /\ ret' = RollErrorFromHorizon(yl, yr, w)
    /\ ui_pc' = "returned"
    /\ UNCHANGED <<UiRest, H, calib_img_wh, yaw_offset_deg, hfov_deg, ctx, pan_deg,
                   shown, norm_a, picks>>

\* _run_homography_dialog, lines 1445-1456: the dialog is accepted with
\* ns pixels and nd scene points; an exception of the fit is caught and
\* leaves self._H and self._calib_img_wh as they were
RunHomographyDialog ==
    /\ ui_pc \in {"ready", "fitted"}
    /\ \E ns \in PairCounts, nd \in PairCounts, Ht \in Homographies, k \in SvdScales :
        LET uvs == SubSeq(PixelPicks, 1, ns)
            xys == SubSeq(ScenePicks(Ht), 1, nd)
            r == HomographyFromPoints(uvs, xys, SvdOf(Ht, k))
        IN  /\ call' = [f |-> "_homography_from_points", src |-> uvs, dst |-> xys,
                        H_before |-> H]
            /\ ret' = r
            /\ IF r.raised
               THEN UNCHANGED <<H, calib_img_wh>>
               ELSE /\ H' = r.value
                    /\ calib_img_wh' = Some(CalibImageWH)
    /\ ui_pc' = IF ui_pc = "ready" THEN "fitted" ELSE "refitted"
    /\ UNCHANGED <<UiRest, yaw_offset_deg, hfov_deg, ctx, pan_deg, shown, norm_a, picks>>

\* _map_from_click(u, v, uv_in_calib_space), lines 1560-1579.  bundle: a
\* calibration bundle is loaded; hit: _map_by_ptz found a ground point
MapFromClick ==
    /\ ui_pc \in {"ready", "fitted", "refitted", "fov_calibrated", "calibrated"}
    /\ \E c \in Clicks, mode \in MappingModes, bundle \in BOOLEAN, hit \in BOOLEAN :
        \* lines 1562-1563: the tests on the prefix of mode
        LET prefer_h == mode \in {"Auto (prefer Homography)", "Homography only"}
            allow_ptz == mode \in {"Auto (prefer Homography)", "PTZ+DTM only"}
            xy == MapByHomography(H, calib_img_wh, c.u, c.v, c.uv_in_calib_space, VideoWH)
            ptz_ok == bundle /\ yaw_offset_deg.some
        IN  /\ call' = [f |-> "_map_from_click", u |-> c.u, v |-> c.v,
                        uv_in_calib_space |-> c.uv_in_calib_space, mode |-> mode]
            /\ ret' = IF prefer_h /\ H.some THEN xy ELSE NonePair
            /\ shown' =
                IF prefer_h /\ H.some /\ xy.some
                THEN [source |-> "homography", x |-> xy.x, y |-> xy.y]
                ELSE IF allow_ptz /\ ptz_ok /\ hit
                THEN [source |-> "ptz", x |-> 0, y |-> 0]
                ELSE NothingShown
    /\ ui_pc' = "clicked"
    /\ UNCHANGED <<UiRest, H, calib_img_wh, yaw_offset_deg, hfov_deg, ctx, pan_deg,
                   norm_a, picks>>

\* yaw_to(x, y) of _calibrate_fov_with_ptz and the bearing of
\* _on_azimuth_pick_scene: _normalize_angle_deg(degrees(atan2(dx, dy)))
YawTo ==
    [p \in CalibrationPoints |->
        NormalizeAngleDeg(Deg(Atan2Deg(p[1] - CameraProj[1], p[2] - CameraProj[2])))]

\* _calibrate_fov_with_ptz, lines 1208-1254, with the dialog accepted
CalibrateFovWithPtz ==
    /\ ui_pc = "ready"
    /\ pan_deg.some
    /\ \E l \in CalibrationPoints, r \in CalibrationPoints :
        LET yaw_l == YawTo[l]
            yaw_r == YawTo[r]
            yaw_center_world == MidYawDeg(yaw_l, yaw_r)
            pan_now == OrZero(pan_deg)
        IN  /\ call' = [f |-> "_calibrate_fov_with_ptz", yaw_l |-> yaw_l, yaw_r |-> yaw_r,
                        pan_now |-> pan_now]
            /\ ret' = yaw_center_world
            /\ hfov_deg' = Some(Abs(AngleDiffDeg(yaw_r, yaw_l)))
            /\ yaw_offset_deg' = Some(NormalizeAngleDeg(FSub(yaw_center_world, pan_now)))
    /\ ui_pc' = "fov_calibrated"
    /\ UNCHANGED <<UiRest, H, calib_img_wh, ctx, pan_deg, shown, norm_a, picks>>

\* _on_active_camera_changed(ctx), lines 785-787: the value of
\* self._yaw_offset_deg after the slot has run
OnActiveCameraChanged(c, offset) ==
    IF c.present THEN Some(c.yaw_offset_deg) ELSE offset

\* _calibrate_azimuth_from_ortho and _on_azimuth_pick_scene, lines
\* 1321-1357: the point is picked; signal_camera_changed.emit(ctx) runs
\* the slot _on_active_camera_changed before emit returns
OnAzimuthPickScene ==
    /\ ui_pc \in {"ready", "calibrated"}
    /\ picks < MaxPicks
    /\ pan_deg.some
    /\ \E p \in CalibrationPoints :
        LET pan_now == pan_deg.v
            az == YawTo[p]
            offset == NormalizeAngleDeg(FSub(az, pan_now))
            ctx1 == IF ctx.present THEN Ctx(FAdd(ctx.yaw_offset_deg, offset)) ELSE ctx
        IN  /\ call' = [f |-> "_on_azimuth_pick_scene", az |-> az, pan_now |-> pan_now,
                        ctx_before |-> ctx]
            /\ ret' = offset
            /\ ctx' = ctx1
            /\ yaw_offset_deg' = OnActiveCameraChanged(ctx1, Some(offset))
    /\ picks' = picks + 1
    /\ ui_pc' = "calibrated"
    /\ UNCHANGED <<UiRest, H, calib_img_wh, hfov_deg, pan_deg, shown, norm_a>>

NextUi ==
    \/ NormalizeCall
    \/ NormalizeUpStep
    \/ NormalizeUpExit
    \/ NormalizeDownStep
    \/ NormalizeReturn
    \/ AngleDiffCall
    \/ MidYawCall
    \/ AzimuthFromOrthoPointsCall
    \/ RollErrorFromHorizonCall
    \/ RunHomographyDialog
    \/ MapFromClick
    \/ CalibrateFovWithPtz
    \/ OnAzimuthPickScene

SpecUi == InitUi /\ [][NextUi]_vars

---------------------------------------------------------------------------
(* any_ptz_client.py: AnyPTZClient.  A call of start(), stop() or           *)
(* switch_to_cgi() runs to its end on the caller's thread; what the         *)
(* constructors and methods of the pollers do (return or raise) and what    *)
(* the ONVIF poller reports is the environment's choice.                    *)

\* the state of an AnyPTZClient
ApState == [client |-> ap_client, mode |-> ap_mode, poll_dt |-> ap_poll_dt,
            pollers |-> ap_pollers]

\* a poller object: OnvifPTZClient or PtzCgiThread
Poller(kind) == [kind |-> kind, running |-> FALSE]

\* client.stop(): the poller's stop event is set
StopPoller(s, i) == [s EXCEPT !.pollers[i].running = FALSE]

\* switch_to_cgi without stopping the current poller first
SwitchToCgiNoStop(s, c) ==
    IF ~c.ctor THEN [raised |-> TRUE, s |-> s]
    ELSE LET q == Len(s.pollers) + 1
             s2 == [s EXCEPT !.pollers = Append(@, Poller("cgi")), !.client = q]
         IN  IF ~c.start THEN [raised |-> TRUE, s |-> s2]
             ELSE [raised |-> FALSE,
                   s |-> [s2 EXCEPT !.pollers[q].running = TRUE, !.mode = "cgi",
                                    !.poll_dt = "cgi"]]

\* switch_to_cgi(), lines 104-122.  c.ctor: PtzCgiThread(...) returns,
\* c.start: its start() returns; an exception of the old client's stop() is
\* swallowed (lines 107-110)
SwitchToCgi(s, c) ==
    LET s1 == IF s.client # 0 THEN StopPoller(s, s.client) ELSE s
    IN  IF ~c.ctor THEN [raised |-> TRUE, s |-> s1]
        ELSE LET q == Len(s1.pollers) + 1
                 s2 == [s1 EXCEPT !.pollers = Append(@, Poller("cgi")), !.client = q]
             IN  IF ~c.start THEN [raised |-> TRUE, s |-> s2]
                 ELSE [raised |-> FALSE,
                       s |-> [s2 EXCEPT !.pollers[q].running = TRUE, !.mode = "cgi",
                                        !.poll_dt = "cgi"]]

RECURSIVE PollLoop(_, _, _)
\* lines 67-79: for i in range(5) with the readings rd[1..5] (TRUE: the
\* reading carries pan, tilt or zoom); i counts from 0 as in the code.
\* The result: [empty, polled]
PollLoop(rd, i, empty) ==
    IF i >= 5 THEN [empty |-> empty, polled |-> 5]
    ELSE IF rd[i + 1]
         THEN IF i >= 2 THEN [empty |-> FALSE, polled |-> i + 1]
              ELSE PollLoop(rd, i + 1, FALSE)
         ELSE PollLoop(rd, i + 1, empty)

\* the except branch of start(), lines 83-89
StartExcept(s, c2) ==
    LET r == SwitchToCgi(s, c2)
    IN  [error |-> IF r.raised THEN "RuntimeError" ELSE "", s |-> r.s]

\* start(), lines 48-89.  e.ctor: OnvifPTZClient(...) returns; e.start: its
\* start() returns; e.rd: the readings polled; e.c1, e.c2: what the first
\* and the second call of switch_to_cgi meet
StartCall(s, e) ==
    IF ~e.ctor THEN StartExcept(s, e.c2)
    ELSE LET p == Len(s.pollers) + 1
             s1 == [s EXCEPT !.pollers = Append(@, Poller("onvif")), !.client = p]
         IN  IF ~e.start THEN StartExcept(s1, e.c2)
             ELSE LET s2 == [s1 EXCEPT !.pollers[p].running = TRUE, !.mode = "onvif",
                                       !.poll_dt = "onvif"]
                      loop == PollLoop(e.rd, 0, TRUE)
                  IN  IF ~loop.empty THEN [error |-> "", s |-> s2]
                      ELSE LET r == SwitchToCgi(s2, e.c1)
                           IN  IF r.raised THEN StartExcept(r.s, e.c2)
                               ELSE [error |-> "", s |-> r.s]

\* stop(), lines 91-97; stop_ok: the poller's stop() returns.  The finally
\* clause runs either way
StopCall(s, stop_ok) ==
    IF s.client # 0
    THEN [error |-> IF stop_ok THEN "" ELSE "Exception",
          s |-> [StopPoller(s, s.client) EXCEPT !.client = 0, !.mode = "None"]]
    ELSE [error |-> "", s |-> s]

\* last(), lines 99-102: the poller whose reading is returned, 0 for the
\* empty PTZReading()
LastSource(s) == s.client

(* Inputs *)

\* pollers an AnyPTZClient creates in one session
MaxPollers == 5

\* readings of the ONVIF poller during the five polls of start()
ReadingRuns ==
    { <<FALSE, FALSE, FALSE, FALSE, FALSE>>, <<TRUE, FALSE, FALSE, FALSE, FALSE>>,
      <<FALSE, FALSE, TRUE, TRUE, FALSE>>, <<FALSE, FALSE, FALSE, FALSE, TRUE>>,
      <<TRUE, TRUE, TRUE, TRUE, TRUE>> }

\* what a call of switch_to_cgi meets
CgiOutcomes == { [ctor |-> TRUE, start |-> TRUE], [ctor |-> FALSE, start |-> TRUE],
                 [ctor |-> TRUE, start |-> FALSE] }

\* what a call of start() meets
StartOutcomes ==
    { [ctor |-> c, start |-> st, rd |-> rd, c1 |-> c1, c2 |-> c2] :
        c \in BOOLEAN, st \in BOOLEAN, rd \in ReadingRuns,
        c1 \in CgiOutcomes, c2 \in CgiOutcomes }

AnyPtzRest == <<core, geo, ui, store, poller, dialog>>

\* AnyPTZClient after __init__, lines 44-46
InitAnyPtz ==
    /\ CoreIdle /\ GeoIdle /\ UiIdle /\ StoreIdle /\ PollerIdle /\ DialogIdle
    /\ ap_client = 0 /\ ap_mode = "None" /\ ap_poll_dt = "default"
    /\ ap_pollers = <<>>
    /\ ap_call = [f |-> "__init__", error |-> ""]
    /\ ap_pc = "ready"

\* the state after a call
ApAfter(s) ==
    /\ ap_client' = s.client
    /\ ap_mode' = s.mode
    /\ ap_poll_dt' = s.poll_dt
    /\ ap_pollers' = s.pollers

(* Actions *)

\* client.start()
ApStart ==
    /\ ap_pc = "ready"
    /\ Len(ap_pollers) + 3 <= MaxPollers
    /\ \E e \in StartOutcomes :
        LET r == StartCall(ApState, e)
            loop == PollLoop(e.rd, 0, TRUE)
        IN  /\ ApAfter(r.s)
            /\ ap_call' = [f |-> "start", error |-> r.error,
                           onvif_ok |-> e.ctor /\ e.start,
                           any_value |-> e.ctor /\ e.start /\ \E i \in 1..loop.polled : e.rd[i],
                           before |-> Len(ap_pollers)]
    /\ UNCHANGED <<AnyPtzRest, ap_pc>>

\* client.stop()
ApStop ==
    /\ ap_pc = "ready"
    /\ \E stop_ok \in BOOLEAN :
        \* a poller's stop() raises only when its thread was never started
        /\ ~stop_ok => ap_client # 0 /\ ~ap_pollers[ap_client].running
        /\ LET r == StopCall(ApState, stop_ok)
           IN  /\ ApAfter(r.s)
               /\ ap_call' = [f |-> "stop", error |-> r.error]
    /\ UNCHANGED <<AnyPtzRest, ap_pc>>

\* client.switch_to_cgi()
ApSwitchToCgi ==
    /\ ap_pc = "ready"
    /\ Len(ap_pollers) + 1 <= MaxPollers
    /\ \E c \in CgiOutcomes :
        LET r == SwitchToCgi(ApState, c)
        IN  /\ ApAfter(r.s)
            /\ ap_call' = [f |-> "switch_to_cgi",
                           error |-> IF r.raised THEN "Exception" ELSE ""]
    /\ UNCHANGED <<AnyPtzRest, ap_pc>>

NextAnyPtz ==
    \/ ApStart
    \/ ApStop
    \/ ApSwitchToCgi

SpecAnyPtz == InitAnyPtz /\ [][NextAnyPtz]_vars

---------------------------------------------------------------------------
(* camera_models.py save_bundle / load_bundle and                          *)
(* Img2GroundModule._persist_ctx_offsets: the bundle file and the profiles  *)
(* file.  Offsets are triples <<yaw, pitch, roll>> of whole degrees; a key   *)
(* a dict may lack is None when absent.                                     *)

\* d.get(key, default) / getattr(obj, key, default)
GetOr(f, default) == IF f.some THEN f.v ELSE default

\* the meta dict of a bundle: the three offset keys, if present, and the
\* other keys
Meta(yaw, pitch, roll, other) ==
    [yaw_offset_deg |-> yaw, pitch_offset_deg |-> pitch, roll_offset_deg |-> roll,
     other |-> other]

\* save_bundle(name, intr, pose, mesh_path, meta, georef, yaw_offset_deg,
\* pitch_offset_deg, roll_offset_deg), lines 33-63: the JSON written.
\* rest stands for name, intrinsics, pose, terrain_path, terrain_type, georef
SaveBundle(rest, meta, offsets) ==
    [rest |-> rest, meta |-> meta,
     yaw_offset_deg |-> Some(offsets[1]),
     pitch_offset_deg |-> Some(offsets[2]),
     roll_offset_deg |-> Some(offsets[3])]

\* load_bundle with the file's offset fields always winning
LoadBundleMetaOverwrite(b) ==
    [b.meta EXCEPT !.yaw_offset_deg = Some(GetOr(b.yaw_offset_deg, 0)),
                   !.pitch_offset_deg = Some(GetOr(b.pitch_offset_deg, 0)),
                   !.roll_offset_deg = Some(GetOr(b.roll_offset_deg, 0))]

\* load_bundle(name), lines 65-87: the meta it returns.
\* meta.setdefault(key, float(d.get(key, 0.0))) keeps a key meta already has
LoadBundleMeta(b) ==
    [b.meta EXCEPT
        !.yaw_offset_deg = IF @.some THEN @ ELSE Some(GetOr(b.yaw_offset_deg, 0)),
        !.pitch_offset_deg = IF @.some THEN @ ELSE Some(GetOr(b.pitch_offset_deg, 0)),
        !.roll_offset_deg = IF @.some THEN @ ELSE Some(GetOr(b.roll_offset_deg, 0))]

RECURSIVE FirstNamed(_, _, _)
\* lines 474-480: the index of the first profile p with p.get("name") ==
\* alias, 0 when there is none
FirstNamed(profiles, alias, i) ==
    IF i > Len(profiles) THEN 0
    ELSE IF profiles[i].name = alias THEN i
    ELSE FirstNamed(profiles, alias, i + 1)

\* _persist_ctx_offsets, lines 469-484: the profiles file afterwards.  An
\* alias that is None or "" is falsy
PersistProfiles(profiles, c) ==
    LET i == IF c.alias # "" THEN FirstNamed(profiles, c.alias, 1) ELSE 0
    IN  IF i = 0 THEN profiles
        ELSE [profiles EXCEPT ![i].yaw_offset_deg = c.offsets[1],
                              ![i].pitch_offset_deg = c.offsets[2],
                              ![i].roll_offset_deg = c.offsets[3]]

\* _persist_ctx_offsets, lines 486-498: the bundle file afterwards
PersistBundle(b, c) ==
    [b EXCEPT !.yaw_offset_deg = Some(c.offsets[1]),
              !.pitch_offset_deg = Some(c.offsets[2]),
              !.roll_offset_deg = Some(c.offsets[3])]

(* Inputs *)

OffsetTriples == { <<0, 0, 0>>, <<5, 1, 2>>, <<12, 0, -3>> }

\* meta dicts handed to save_bundle: without offset keys, with all three
\* (as load_bundle returns them), with one
Metas ==
    { Meta(None, None, None, 1), Meta(Some(5), Some(1), Some(2), 1),
      Meta(Some(7), None, None, 2) }

\* the profiles file
ProfilesFile ==
    << [name |-> "cam1", yaw_offset_deg |-> 0, pitch_offset_deg |-> 0,
        roll_offset_deg |-> 0, rtsp |-> 1],
       [name |-> "cam2", yaw_offset_deg |-> 5, pitch_offset_deg |-> 1,
        roll_offset_deg |-> 2, rtsp |-> 2] >>

\* the camera contexts: alias and offsets
StoreCtxs == { [alias |-> a, offsets |-> o] : a \in {"cam1", "cam2", "cam3", ""},
                                               o \in OffsetTriples }

\* calls of _persist_ctx_offsets in one session
MaxPersists == 2

NoBundle == [rest |-> 0, meta |-> Meta(None, None, None, 0), yaw_offset_deg |-> None,
             pitch_offset_deg |-> None, roll_offset_deg |-> None]

StoreRest == <<core, geo, ui, anyptz, poller, dialog>>

\* before the bundle is saved
InitStore ==
    /\ CoreIdle /\ GeoIdle /\ UiIdle /\ AnyPtzIdle /\ PollerIdle /\ DialogIdle
    /\ st_bundle = NoBundle
    /\ st_profiles = ProfilesFile
    /\ st_loaded = Meta(None, None, None, 0)
    /\ st_call = [f |-> "none"]
    /\ st_persists = 0
    /\ st_pc = "new"

(* Actions *)

\* save_bundle(...)
SaveBundleCall ==
    /\ st_pc = "new"
    /\ \E m \in Metas, o \in OffsetTriples :
        /\ st_bundle' = SaveBundle(1, m, o)
        /\ st_call' = [f |-> "save_bundle", meta |-> m, offsets |-> o]
    /\ st_pc' = "saved"
    /\ UNCHANGED <<StoreRest, st_profiles, st_loaded, st_persists>>

\* self._persist_ctx_offsets(ctx) with self._bundle_path the bundle saved;
\* app_state has no project
PersistCtxOffsetsCall ==
    /\ st_pc = "saved"
    /\ st_persists < MaxPersists
    /\ \E c \in StoreCtxs :
        /\ st_profiles' = PersistProfiles(st_profiles, c)
        /\ st_bundle' = PersistBundle(st_bundle, c)
        /\ st_call' = [f |-> "_persist_ctx_offsets", ctx |-> c,
                       bundle_before |-> st_bundle, profiles_before |-> st_profiles]
    /\ st_persists' = st_persists + 1
    /\ UNCHANGED <<StoreRest, st_loaded, st_pc>>

\* load_bundle(name)
LoadBundleCall ==
    /\ st_pc = "saved"
    /\ st_loaded' = LoadBundleMeta(st_bundle)
    /\ st_pc' = "loaded"
    /\ UNCHANGED <<StoreRest, st_bundle, st_profiles, st_call, st_persists>>

NextStore ==
    \/ SaveBundleCall
    \/ PersistCtxOffsetsCall
    \/ LoadBundleCall

SpecStore == InitStore /\ [][NextStore]_vars

---------------------------------------------------------------------------
(* ptz_cgi.py PtzCgiThread and onvif_ptz.py OnvifPTZClient: a poller        *)
(* object, the threads its start() has created and the thread calling       *)
(* start(), stop() and last().  Each step of a polling thread between two    *)
(* accesses of shared data is an action of its own, so that the threads      *)
(* interleave as Python's threads do.  Angles and positions are integers in  *)
(* units of 1/Scale.                                                         *)

\* PTZReading(...)
Reading(pan, tilt, zoom_norm, zoom_mm, focus) ==
    [pan_deg |-> pan, tilt_deg |-> tilt, zoom_norm |-> zoom_norm, zoom_mm |-> zoom_mm,
     focus_pos |-> focus]

EmptyReading == Reading(None, None, None, None, None)

\* PtzCgiThread._to_deg(v, kind), lines 150-165
ToDeg(v, kind) ==
    IF ~v.some THEN None
    ELSE IF -360 * Scale <= v.v /\ v.v <= 360 * Scale THEN v
    ELSE IF -1010 <= v.v /\ v.v <= 1010
         THEN IF kind \in {"pan", "tilt"} THEN Some(v.v * 180) ELSE v
    ELSE IF -10 <= v.v /\ v.v <= 1010
         THEN IF kind \in {"pan", "tilt"} THEN Some(v.v * 360) ELSE v
    ELSE v

\* PtzCgiThread._normalize_zoom(z), lines 134-148
NormalizeZoom(z) ==
    IF ~z.some THEN None
    ELSE IF 0 <= z.v /\ z.v <= Scale THEN z
    ELSE IF Scale < z.v /\ z.v <= 100 * Scale THEN Some(RDiv(z.v, 100))
    ELSE IF 100 * Scale < z.v /\ z.v <= 255 * Scale THEN Some(RDiv(z.v, 255))
    ELSE IF 255 * Scale < z.v /\ z.v <= 1023 * Scale THEN Some(RDiv(z.v, 1023))
    ELSE IF 1023 * Scale < z.v /\ z.v <= 1024 * Scale THEN Some(RDiv(z.v, 1024))
    ELSE None

\* lines 181, 187, 199: a body, a 2xx code, pan and tilt among the keys
GoodResponse(r) ==
    /\ r.txt /\ 200 <= r.code /\ r.code < 300
    /\ r.pan.some /\ r.tilt.some

\* lines 200-207: the _Status built from parse_cgi_status(txt)
CgiStatus(r) ==
    Reading(ToDeg(r.pan, "pan"), ToDeg(r.tilt, "tilt"),
            NormalizeZoom(ToDeg(r.zoom, "zoom")), None, ToDeg(r.focus, "zoom"))

\* lines 223-240: the dict handed to shared_state.update_ptz_meta
PtzMetaDict(st) ==
    [pan_deg |-> st.pan_deg, tilt_deg |-> st.tilt_deg, zoom_mm |-> None,
     zoom_norm |-> st.zoom_norm, focus_pos |-> st.focus_pos,
     cgi_last |-> [pan_deg |-> st.pan_deg, tilt_deg |-> st.tilt_deg,
                   zoom |-> st.zoom_norm]]

NoPtzMeta == [some |-> FALSE]

\* shared_state.py defines no attribute update_ptz_meta
HasUpdatePtzMeta == FALSE

\* lines 220-242: import shared_state; shared_state.update_ptz_meta(d) inside
\* try / except Exception: pass.  The AttributeError of the missing function
\* is swallowed and shared_state.ptz_meta stays as it was
UpdatePtzMeta(meta, dict) ==
    IF HasUpdatePtzMeta THEN [some |-> TRUE, v |-> dict] ELSE meta

(* Inputs *)

NoResponse == [txt |-> FALSE, code |-> -1, pan |-> None, tilt |-> None, zoom |-> None,
               focus |-> None]

\* what _fetch_text returns: bodies with their parse_cgi_status values
CgiResponses ==
    { [txt |-> TRUE, code |-> 200, pan |-> Some(1000), tilt |-> Some(2000),
       zoom |-> Some(250), focus |-> Some(3000)],
      [txt |-> TRUE, code |-> 200, pan |-> Some(90000), tilt |-> Some(-5000),
       zoom |-> Some(50000), focus |-> None],
      [txt |-> TRUE, code |-> 200, pan |-> None, tilt |-> Some(7000),
       zoom |-> Some(250), focus |-> Some(3000)],
      NoResponse }

\* what one pass of OnvifPTZClient._run's loop builds: a reading, or nothing
\* when GetStatus raised
OnvifReadings ==
    { [ok |-> TRUE, reading |-> Reading(Some(10000), Some(20000), Some(500), None, None)],
      [ok |-> TRUE,
       reading |-> Reading(Some(-30000), Some(0), Some(100), Some(4800), Some(700))],
      [ok |-> FALSE, reading |-> EmptyReading] }

\* the polling threads one poller object creates
ThreadIds == { 1, 2 }

Thread(pc_, resp) == [pc |-> pc_, resp |-> resp]

PollerRest == <<core, geo, ui, anyptz, store, dialog>>

\* a poller after __init__
InitPoller ==
    /\ CoreIdle /\ GeoIdle /\ UiIdle /\ AnyPtzIdle /\ StoreIdle /\ DialogIdle
    /\ pl_kind \in {"cgi", "onvif"}
    /\ pl_last = EmptyReading
    /\ pl_stop = FALSE
    /\ pl_th = 0
    /\ pl_threads = <<>>
    /\ ptz_meta = NoPtzMeta
    /\ pl_snap = EmptyReading
    /\ pl_caller = "ready"

\* the threads whose _run has not returned
AliveThreads == { i \in 1..Len(pl_threads) : pl_threads[i].pc # "exited" }

(* Actions of the calling thread *)

\* start(): ptz_cgi.py lines 78-82, onvif_ptz.py lines 58-61
PlStart ==
    /\ pl_caller \in {"ready", "stopped"}
    /\ Len(pl_threads) + 1 \in ThreadIds
    /\ pl_stop' = FALSE
    /\ pl_threads' = Append(pl_threads,
                            Thread(IF pl_kind = "onvif" THEN "ensure" ELSE "loop", NoResponse))
    /\ pl_th' = Len(pl_threads) + 1
    /\ pl_caller' = "ready"
    /\ UNCHANGED <<PollerRest, pl_kind, pl_last, ptz_meta, pl_snap>>

\* stop() up to the join: self._stop.set(); without a thread it returns
PlStopSet ==
    /\ pl_caller \in {"ready", "stopped"}
    /\ pl_stop' = TRUE
    /\ pl_caller' = IF pl_th # 0 THEN "joining" ELSE "stopped"
    /\ UNCHANGED <<PollerRest, pl_kind, pl_last, pl_th, pl_threads, ptz_meta, pl_snap>>

\* stop(): self._th.join(timeout=2.0) returns because the thread has ended
PlJoinReturn ==
    /\ pl_caller = "joining"
    /\ pl_threads[pl_th].pc = "exited"
    /\ pl_th' = 0
    /\ pl_caller' = "stopped"
    /\ UNCHANGED <<PollerRest, pl_kind, pl_last, pl_stop, pl_threads, ptz_meta, pl_snap>>

\* stop(): the join times out after 2 s while the thread is still inside a
\* network call (_fetch_text tries up to 8 URLs with 2 s each)
PlJoinTimeout ==
    /\ pl_caller = "joining"
    /\ pl_threads[pl_th].pc = "fetch"
    /\ pl_th' = 0
    /\ pl_caller' = "stopped"
    /\ UNCHANGED <<PollerRest, pl_kind, pl_last, pl_stop, pl_threads, ptz_meta, pl_snap>>

\* r = last(), and the caller reads r's fields at once
PlLast ==
    /\ pl_caller \in {"ready", "stopped"}
    /\ pl_snap' = pl_last
    /\ UNCHANGED <<PollerRest, pl_kind, pl_last, pl_stop, pl_th, pl_threads, ptz_meta,
                   pl_caller>>

(* Actions of polling thread i *)

PlStep(i, pc_, resp) == pl_threads' = [pl_threads EXCEPT ![i] = Thread(pc_, resp)]

\* onvif_ptz.py lines 140-144: _ensure_services() returns or raises
PlEnsure(i) ==
    /\ pl_threads[i].pc = "ensure"
    /\ \E ok \in BOOLEAN : PlStep(i, IF ok THEN "loop" ELSE "exited", NoResponse)
    /\ UNCHANGED <<PollerRest, pl_kind, pl_last, pl_stop, pl_th, ptz_meta, pl_snap,
                   pl_caller>>

\* while not self._stop.is_set()
PlLoopTest(i) ==
    /\ pl_threads[i].pc = "loop"
    /\ PlStep(i, IF pl_stop THEN "exited" ELSE "fetch", pl_threads[i].resp)
    /\ UNCHANGED <<PollerRest, pl_kind, pl_last, pl_stop, pl_th, ptz_meta, pl_snap,
                   pl_caller>>

\* ptz_cgi.py lines 180-199: _fetch_text() returns and the response is
\* judged; onvif_ptz.py lines 150-176: GetStatus returns or raises
PlFetchReturn(i) ==
    /\ pl_threads[i].pc = "fetch"
    /\ \/ /\ pl_kind = "cgi"
          /\ \E r \in CgiResponses :
                PlStep(i, IF GoodResponse(r) THEN "set_pan" ELSE "sleep", r)
       \/ /\ pl_kind = "onvif"
          /\ \E r \in OnvifReadings :
                PlStep(i, IF r.ok THEN "replace" ELSE "sleep", r)
    /\ UNCHANGED <<PollerRest, pl_kind, pl_last, pl_stop, pl_th, ptz_meta, pl_snap,
                   pl_caller>>

\* ptz_cgi.py line 209: self._last.pan_deg = st.pan_deg
PlSetPan(i) ==
    /\ pl_threads[i].pc = "set_pan"
    /\ pl_last' = [pl_last EXCEPT !.pan_deg = CgiStatus(pl_threads[i].resp).pan_deg]
    /\ PlStep(i, "set_tilt", pl_threads[i].resp)
    /\ UNCHANGED <<PollerRest, pl_kind, pl_stop, pl_th, ptz_meta, pl_snap, pl_caller>>

\* line 210: self._last.tilt_deg = st.tilt_deg
PlSetTilt(i) ==
    /\ pl_threads[i].pc = "set_tilt"
    /\ pl_last' = [pl_last EXCEPT !.tilt_deg = CgiStatus(pl_threads[i].resp).tilt_deg]
    /\ PlStep(i, "set_zoom", pl_threads[i].resp)
    /\ UNCHANGED <<PollerRest, pl_kind, pl_stop, pl_th, ptz_meta, pl_snap, pl_caller>>

\* line 211: self._last.zoom_norm = st.zoom_norm
PlSetZoom(i) ==
    /\ pl_threads[i].pc = "set_zoom"
    /\ pl_last' = [pl_last EXCEPT !.zoom_norm = CgiStatus(pl_threads[i].resp).zoom_norm]
    /\ PlStep(i, "set_focus", pl_threads[i].resp)
    /\ UNCHANGED <<PollerRest, pl_kind, pl_stop, pl_th, ptz_meta, pl_snap, pl_caller>>

\* line 212: self._last.focus_pos = st.focus_pos
PlSetFocus(i) ==
    /\ pl_threads[i].pc = "set_focus"
    /\ pl_last' = [pl_last EXCEPT !.focus_pos = CgiStatus(pl_threads[i].resp).focus_pos]
    /\ PlStep(i, "shared", pl_threads[i].resp)
    /\ UNCHANGED <<PollerRest, pl_kind, pl_stop, pl_th, ptz_meta, pl_snap, pl_caller>>

\* lines 213-243: the row and the update of the shared state
PlShared(i) ==
    /\ pl_threads[i].pc = "shared"
    /\ ptz_meta' = UpdatePtzMeta(ptz_meta, PtzMetaDict(CgiStatus(pl_threads[i].resp)))
    /\ PlStep(i, "sleep", pl_threads[i].resp)
    /\ UNCHANGED <<PollerRest, pl_kind, pl_last, pl_stop, pl_th, pl_snap, pl_caller>>

\* onvif_ptz.py lines 178-181: self._last = PTZReading(...)
PlReplace(i) ==
    /\ pl_threads[i].pc = "replace"
    /\ pl_last' = pl_threads[i].resp.reading
    /\ PlStep(i, "sleep", pl_threads[i].resp)
    /\ UNCHANGED <<PollerRest, pl_kind, pl_stop, pl_th, ptz_meta, pl_snap, pl_caller>>

\* time.sleep(self.poll_dt)
PlSleep(i) ==
    /\ pl_threads[i].pc = "sleep"
    /\ PlStep(i, "loop", pl_threads[i].resp)
    /\ UNCHANGED <<PollerRest, pl_kind, pl_last, pl_stop, pl_th, ptz_meta, pl_snap,
                   pl_caller>>

\* a step of a polling thread
PlRun ==
    \E i \in 1..Len(pl_threads) :
        \/ PlEnsure(i)
        \/ PlLoopTest(i)
        \/ PlFetchReturn(i)
        \/ PlSetPan(i)
        \/ PlSetTilt(i)
        \/ PlSetZoom(i)
        \/ PlSetFocus(i)
        \/ PlShared(i)
        \/ PlReplace(i)
        \/ PlSleep(i)

NextPoller ==
    \/ PlStart
    \/ PlStopSet
    \/ PlJoinReturn
    \/ PlJoinTimeout
    \/ PlLast
    \/ PlRun

SpecPoller == InitPoller /\ [][NextPoller]_vars

---------------------------------------------------------------------------
(* ui_img2ground_module.py HomographyDialog: the two point lists, whose     *)
(* turn it is, the OK button and the result handed to the caller.           *)

\* clicks on the image label: the pixel _map_pos_to_uv gives, or a click
\* outside the displayed image, for which it gives None
ImageClicks ==
    { [inside |-> TRUE, uv |-> <<10, 20>>], [inside |-> TRUE, uv |-> <<300, 40>>],
      [inside |-> FALSE, uv |-> <<0, 0>>] }

\* clicks on the map view, in scene coordinates
MapClicks == { <<5, 5>> }

\* image clicks taken while the dialog is followed
MaxClicks == 9

Min(a, b) == IF a <= b THEN a ELSE b

\* lines 274, 288: n = min(len(self._uvs), len(self._xys))
NumComplete(uvs, xys) == Min(Len(uvs), Len(xys))

\* line 276: self._ok.setEnabled(4 <= n <= 8)
OkEnabled(uvs, xys) == 4 <= NumComplete(uvs, xys) /\ NumComplete(uvs, xys) <= 8

NoResult == [some |-> FALSE, uvs |-> <<>>, xys |-> <<>>]

\* result() returning both lists whole
ResultUnsliced(uvs, xys) ==
    IF NumComplete(uvs, xys) < 4 THEN NoResult
    ELSE [some |-> TRUE, uvs |-> uvs, xys |-> xys]

\* lines 287-290: result()
Result(uvs, xys) ==
    IF NumComplete(uvs, xys) < 4 THEN NoResult
    ELSE [some |-> TRUE, uvs |-> SubSeq(uvs, 1, NumComplete(uvs, xys)),
          xys |-> SubSeq(xys, 1, NumComplete(uvs, xys))]

Front(s) == SubSeq(s, 1, Len(s) - 1)

DialogRest == <<core, geo, ui, anyptz, store, poller>>

\* lines 120-174: the dialog as constructed
InitDialog ==
    /\ CoreIdle /\ GeoIdle /\ UiIdle /\ AnyPtzIdle /\ StoreIdle /\ PollerIdle
    /\ dlg_uvs = <<>>
    /\ dlg_xys = <<>>
    /\ dlg_awaiting = "image"
    /\ dlg_ok = FALSE
    /\ dlg_result = NoResult
    /\ dlg_pc = "open"

\* lines 176-188: a left button press on the image
ImageClick ==
    /\ dlg_pc = "open"
    /\ Len(dlg_uvs) < MaxClicks
    /\ \E uv \in ImageClicks :
          IF dlg_awaiting # "image" \/ ~uv.inside
          THEN UNCHANGED <<dlg_uvs, dlg_awaiting, dlg_ok>>
          ELSE /\ dlg_uvs' = Append(dlg_uvs, uv.uv)
               /\ dlg_awaiting' = "map"
               /\ dlg_ok' = OkEnabled(dlg_uvs', dlg_xys)
    /\ UNCHANGED <<DialogRest, dlg_xys, dlg_result, dlg_pc>>

\* lines 234-251: _on_map_clicked(xs, ys); the marker put on the map shows
\* the number len(self._xys) + 1
MapClick ==
    /\ dlg_pc = "open"
    /\ \E xy \in MapClicks :
          IF dlg_awaiting # "map"
          THEN UNCHANGED <<dlg_xys, dlg_awaiting, dlg_ok>>
          ELSE /\ dlg_xys' = Append(dlg_xys, [num |-> Len(dlg_xys) + 1, xy |-> xy])
               /\ dlg_awaiting' = "image"
               /\ dlg_ok' = OkEnabled(dlg_uvs, dlg_xys')
    /\ UNCHANGED <<DialogRest, dlg_uvs, dlg_result, dlg_pc>>

\* lines 253-262: _undo_last()
UndoLast ==
    /\ dlg_pc = "open"
    /\ IF dlg_xys # <<>> /\ dlg_uvs # <<>>
       THEN /\ dlg_uvs' = Front(dlg_uvs)
            /\ dlg_xys' = Front(dlg_xys)
            /\ dlg_ok' = OkEnabled(dlg_uvs', dlg_xys')
       ELSE UNCHANGED <<dlg_uvs, dlg_xys, dlg_ok>>
    /\ UNCHANGED <<DialogRest, dlg_awaiting, dlg_result, dlg_pc>>

\* lines 264-271: _clear()
Clear ==
    /\ dlg_pc = "open"
    /\ dlg_uvs' = <<>>
    /\ dlg_xys' = <<>>
    /\ dlg_awaiting' = "image"
    /\ dlg_ok' = OkEnabled(dlg_uvs', dlg_xys')
    /\ UNCHANGED <<DialogRest, dlg_result, dlg_pc>>

\* the OK button, which can be pressed only while enabled, and lines
\* 1445-1446: res = dlg.result()
Accept ==
    /\ dlg_pc = "open"
    /\ dlg_ok
    /\ dlg_result' = Result(dlg_uvs, dlg_xys)
    /\ dlg_pc' = "accepted"
    /\ UNCHANGED <<DialogRest, dlg_uvs, dlg_xys, dlg_awaiting, dlg_ok>>

\* the Cancel button: result() is not asked
Reject ==
    /\ dlg_pc = "open"
    /\ dlg_pc' = "rejected"
    /\ UNCHANGED <<DialogRest, dlg_uvs, dlg_xys, dlg_awaiting, dlg_ok, dlg_result>>

NextDialog ==
    \/ ImageClick
    \/ MapClick
    \/ UndoLast
    \/ Clear
    \/ Accept
    \/ Reject

SpecDialog == InitDialog /\ [][NextDialog]_vars

---------------------------------------------------------------------------
(* Claims *)

Called == pc \in {"march", "refine", "done"}
Returned == pc = "done"
RayCast == cam.used /\ pc # "image_ray"
RayReturned == cam.used /\ pc = "intersect"

\* the march samples strictly between ray parameters a and b
SamplesBetween(q, a, b) ==
    { k * StepTicks(q) : k \in (a \div StepTicks(q) + 1) .. (b \div StepTicks(q) - 1) }

\* the ray is above (1), on (0) or below (-1) the terrain at a valid sample
Side(q, tt) == Sgn(Pos(q, tt)[3] - ElevAt(q, tt).v)

\* The same at the ray origin, the first anchor: a ray origin whose own
\* sample is missing counts as above the terrain (elev_prev = -1e9).
OriginSide(q) == IF IsValid(ElevAt(q, 0)) THEN Side(q, 0) ELSE 1

RECURSIVE FirstBracket(_, _, _, _)
\* The first bracket [anchor, sample] of the march in which the ray is on
\* opposite sides of the terrain, or on it: tp is the anchor, sp the side
\* of the ray there, tt the next march sample.
FirstBracket(q, tp, sp, tt) ==
    IF (tt \div Pow2(q.refine_steps)) * q.step_m > q.max_range_m
    THEN [found |-> FALSE, lo |-> 0, hi |-> 0]
    ELSE IF ElevAt(q, tt).kind # "finite"
         THEN FirstBracket(q, tp, sp, tt + Pow2(q.refine_steps))
    ELSE IF sp = 0 \/ Side(q, tt) = 0 \/ sp # Side(q, tt)
         THEN [found |-> TRUE, lo |-> tp, hi |-> tt]
    ELSE FirstBracket(q, tt, Side(q, tt), tt + Pow2(q.refine_steps))

BracketOfCall == FirstBracket(Q, 0, OriginSide(Q), Pow2(refine_steps))

\* C1: the call returns None exactly when no valid march sample t = step,
\* 2 * step, ... <= max_range has (prev.z - prev_elev) * (cur.z - cur_elev)
\* <= 0 against the anchor, which is the ray origin at first and the last
\* valid sample after it; a hit lies inside the first such bracket.
C1_NoneIffNoCrossing ==
    Returned =>
        /\ result.hit <=> BracketOfCall.found
        /\ result.hit =>
              /\ BracketOfCall.lo <= lo /\ lo <= hi /\ hi <= BracketOfCall.hi
              /\ result.x = Pos(Q, hi)[1] /\ result.y = Pos(Q, hi)[2]
        /\ ~result.hit => result = NoHit

C1_Witness ==
    /\ Returned /\ result.hit
    /\ BracketOfCall.lo > 0
    /\ hi < BracketOfCall.hi

C1_NoneWitness == Returned /\ ~result.hit /\ t > 2 * StepTicks(Q)

\* C2: an invalid sample only advances t and leaves the anchor alone, so
\* that every march sample between the anchor and t is invalid, the anchor
\* is the value sampled at t_prev, a crossing is detected at the first valid
\* sample beyond the hole, and a hit has a valid elevation.
C2_AnchorKept ==
    Called =>
        /\ \A tk \in SamplesBetween(Q, t_prev, t) : ~IsValid(ElevAt(Q, tk))
        /\ elev_prev = IF t_prev = 0 THEN FirstAnchor(Q) ELSE ElevAt(Q, t_prev)
        /\ t_prev # 0 => IsValid(ElevAt(Q, t_prev))
        /\ pc = "refine" \/ (Returned /\ result.hit) =>
              /\ IsValid(ElevAt(Q, t))
              /\ Crossing(Q, t_prev, elev_prev, t)
        /\ Returned /\ result.hit => IsValid(Elevation(dem, result.x, result.y))

C2_SkipStep ==
    pc = "march" /\ InRange(Q, t) /\ ~IsValid(ElevAt(Q, t)) =>
        /\ t' = t + StepTicks(Q)
        /\ UNCHANGED <<t_prev, elev_prev, pc>>

C2_HoleSkipped == []C2_AnchorKept /\ [][C2_SkipStep]_vars

C2_Witness ==
    /\ Returned /\ result.hit
    /\ IsValid(ElevAt(Q, 0))
    /\ t_prev > 0
    /\ SamplesBetween(Q, t_prev, t) # {}

\* C3: the z of a hit is the DEM's elevation at the hit's planar position
\* (the ray's own z is never used), so z = e on a flat DEM and z = m * x on
\* a sloped one.
C3_HitOnSurface ==
    Returned /\ result.hit =>
        LET e == Elevation(dem, result.x, result.y)
        IN  /\ IsValid(e)
            /\ result.z = e.v
            /\ dem.kind = "flat" => result.z = dem.e1
            /\ dem.kind = "slope" => result.z = RDiv(result.x * dem.e1, dem.e2)

C3_Witness ==
    /\ Returned /\ result.hit
    /\ dem.kind = "slope"
    /\ d[3] < 0
    /\ result.x # 0

\* the scenario of test_intersect_flat_dem
C4_Camera ==
    [used |-> TRUE, u |-> 200, v |-> 150, intr |-> Intr400,
     ptz |-> [pan |-> Some(0), tilt |-> Some(0), zoom |-> None],
     extr |-> [x |-> 0, y |-> 0, z |-> 10 * Scale, yaw |-> -90, pitch |-> 45,
               roll |-> 0, epsg |-> 4326]]

C4_Scenario ==
    /\ cam = C4_Camera
    /\ dem = FlatDem(0)
    /\ max_range_m = 100
    /\ step_m = 20
    /\ refine_steps = DefaultRefineSteps

\* 0.7 m
C4_Tolerance == (7 * Scale) \div 10

ToMetric(dm) ==
    [dm EXCEPT !.thr = @ * dm.mpu, !.x0 = @ * dm.mpu, !.cellw = @ * dm.mpu,
               !.e2 = IF dm.kind = "slope" THEN @ * dm.mpu ELSE @, !.mpu = 1]

\* the result of the call on the same physical scene expressed in metres:
\* planar coordinates and planar direction components times meters_per_unit
MetricResult ==
    Intersect(<<ray_origin[1] * dem.mpu, ray_origin[2] * dem.mpu, ray_origin[3]>>,
              <<ray_dir[1] * dem.mpu, ray_dir[2] * dem.mpu, ray_dir[3]>>,
              ToMetric(dem), max_range_m, step_m, refine_steps)

\* the two results name the same ground point, to within one march step
SameGroundPoint(native, metric) ==
    /\ native.hit = metric.hit
    /\ native.hit =>
          /\ Abs(native.x * dem.mpu - metric.x) <= step_m * Scale
          /\ Abs(native.y * dem.mpu - metric.y) <= step_m * Scale
          /\ Abs(native.z - metric.z) <= step_m * Scale

\* C5: with meters_per_unit = k the call finds the ground point that the call
\* on the same scene in metres finds, for every ray.
C5_UnitsOnly == Returned /\ dem.mpu > 1 => SameGroundPoint(result, MetricResult)

\* C5 for horizontal rays
C5_HorizontalLemma == ray_dir[3] = 0 => C5_UnitsOnly

\* tolerances tol_m a caller might ask for, in units of 1/Scale
Tolerances == {1, 10, 500}

\* C6 as stated: the bisection stops as soon as the vertical error at the
\* midpoint is below the tolerance, so no iteration follows such a midpoint.
C6_StopsAtTolerance ==
    \A tol \in Tolerances :
        ~(pc = "refine" /\ RefineGuard /\ val_mid.some /\ Abs(val_mid.v) < tol)

\* C6 as amended: a hit is returned after exactly refine_steps bisection
\* iterations, whatever the vertical error at the midpoints.
C6_ExactlyRefineSteps ==
    /\ pc = "refine" => iter <= refine_steps
    /\ Returned /\ result.hit => iter = refine_steps

C6_Witness ==
    /\ Returned /\ result.hit
    /\ refine_steps = DefaultRefineSteps
    /\ iter = DefaultRefineSteps
    /\ val_mid.some /\ Abs(val_mid.v) < 10

\* C7: a hit never rests on the value substituted for a missing sample at
\* the origin: the lower value of the bracket it is refined from was formed
\* at a valid sample.
C7_NoSubstitute ==
    Returned /\ result.hit =>
        ~(elev_prev.kind = "substituted" /\ val_lo = PrevVal(Q, t_prev, elev_prev))

\* Optional[float] read with None as 0
NoneAsZero(f) == IF f.some THEN f.v ELSE 0

\* C8: yaw = pose.yaw + pan, pitch = pose.pitch - tilt, roll = pose.roll,
\* None being 0; the zoom never matters; the origin is the pose position.
C8_EffectiveAngles ==
    RayReturned =>
        /\ eff.yaw = cam.extr.yaw + NoneAsZero(cam.ptz.pan)
        /\ eff.pitch = cam.extr.pitch - NoneAsZero(cam.ptz.tilt)
        /\ eff.roll = cam.extr.roll
        /\ ray_origin = <<cam.extr.x, cam.extr.y, cam.extr.z>>
        /\ \A zm \in Zooms :
              ray_dir = ImageRayDir(cam.u, cam.v, cam.intr,
                                    [cam.ptz EXCEPT !.zoom = zm], cam.extr)
        /\ ray_dir = ImageRayDir(cam.u, cam.v, cam.intr,
                                 [pan |-> Some(NoneAsZero(cam.ptz.pan)),
                                  tilt |-> Some(NoneAsZero(cam.ptz.tilt)),
                                  zoom |-> cam.ptz.zoom], cam.extr)
        /\ ray_dir = Normalize(MatVec(
              RotationMatrix(cam.extr.yaw + NoneAsZero(cam.ptz.pan),
                             cam.extr.pitch - NoneAsZero(cam.ptz.tilt), cam.extr.roll),
              Normalize(<<RDiv((cam.u * Scale - cam.intr.cx) * Scale, cam.intr.fx),
                          RDiv((cam.v * Scale - cam.intr.cy) * Scale, cam.intr.fy),
                          Scale>>)))

C8_Witness ==
    /\ RayReturned
    /\ cam.ptz.pan = None /\ cam.ptz.tilt = None /\ cam.ptz.zoom = Some(5)
    /\ cam.extr.pitch = 5 /\ cam.extr.yaw = 90 /\ cam.extr.roll = 30

PrincipalPixel == cam.u * Scale = cam.intr.cx /\ cam.v * Scale = cam.intr.cy

\* C9: with yaw = roll = 0 and the principal pixel, a pose pitch in (0, 90]
\* gives a ray with positive z and a PTZ tilt in (0, 90] one with negative z.
C9_TiltDownPitchUp ==
    RayCast /\ PrincipalPixel /\ eff.yaw = 0 /\ eff.roll = 0 =>
        /\ NoneAsZero(cam.ptz.tilt) = 0 /\ cam.extr.pitch > 0 /\ cam.extr.pitch <= 90
              => ray_dir[3] > 0
        /\ cam.extr.pitch = 0 /\ NoneAsZero(cam.ptz.tilt) > 0
              /\ NoneAsZero(cam.ptz.tilt) <= 90
              => ray_dir[3] < 0

ZeroPose == cam.extr.yaw = 0 /\ cam.extr.pitch = 0 /\ cam.extr.roll = 0

C11_YawHeading ==
    RayCast /\ PrincipalPixel /\ eff.pitch = 0 /\ eff.roll = 0 =>
        /\ eff.yaw = cam.extr.yaw + NoneAsZero(cam.ptz.pan)
        /\ ray_dir = <<Sin(eff.yaw), Cos(eff.yaw), 0>>
        /\ eff.yaw = 0 => ray_dir = <<0, Scale, 0>>
        /\ eff.yaw = 90 => ray_dir = <<Scale, 0, 0>>
        /\ eff.yaw = 180 => ray_dir = <<0, -Scale, 0>>
        /\ eff.yaw = -90 => ray_dir = <<-Scale, 0, 0>>

C11_Witness ==
    /\ RayCast /\ PrincipalPixel /\ eff.pitch = 0 /\ eff.roll = 0
    /\ cam.extr.yaw = 90 /\ cam.ptz.pan = Some(90)
    /\ ray_dir = <<0, -Scale, 0>>

BadFocal == cam.intr.fx <= 0 \/ cam.intr.fy <= 0

\* C12: image_ray ends in a configuration error when fx <= 0 or fy <= 0,
\* so that no such intrinsics produce a ray, and it returns a ray without
\* raising when fx > 0 and fy > 0.
C12_ConfigError ==
    cam.used /\ pc # "image_ray" =>
        /\ BadFocal => pc = "ValueError"
        /\ ~BadFocal => pc \notin {"ValueError", "ZeroDivisionError"}

\* the distance a coordinate may move in the round trip: the rounding of
\* the model's fixed point, 15 mm and a thousandth of the planar offset
RoundTripTol(p) == 15 + (Abs(p[1]) + Abs(p[2])) \div 1000

\* C13: geographic_to_local(local_to_geographic(p)) is p for every GeoRef,
\* with or without a projected EPSG and whatever the site yaw; the altitude
\* is origin_alt + z, and z comes back as alt - origin_alt, exactly.
C13_RoundTrip ==
    /\ geo_pc \in {"geographic_to_local", "round_trip_done"} =>
          geo_lla.alt = georef.origin_alt + geo_p[3]
    /\ geo_pc = "round_trip_done" =>
          /\ Abs(geo_local[1] - geo_p[1]) <= RoundTripTol(geo_p)
          /\ Abs(geo_local[2] - geo_p[2]) <= RoundTripTol(geo_p)
          /\ geo_local[3] = geo_p[3]

C13_Witness ==
    /\ geo_pc = "round_trip_done"
    /\ georef.yaw_site_deg = 30
    /\ georef.projected_epsg = None
    /\ georef.origin_lat = 30 * DegUnits
    /\ geo_p = <<-25 * Scale, 70 * Scale, -3 * Scale>>
    /\ geo_lla.lat # georef.origin_lat

C13_ProjectedWitness ==
    /\ geo_pc = "round_trip_done"
    /\ georef.yaw_site_deg = -45
    /\ georef.projected_epsg = Some(4087)
    /\ geo_p = <<100 * Scale, 0, 5 * Scale>>

\* C14: a call with no EPSG in the GeoRef and none in the DTM ends in a
\* configuration error, which is not the None of an exhausted range.
C14_NoCrsIsAnError ==
    geo_pc = "dtm_done" /\ DtmNoCrs(georef, dtm) =>
        /\ dtm_result.kind = "ConfigurationError"
        /\ dtm_result # DtmNone

\* the range is exhausted with a usable CRS: None as well
C14_ExhaustedLemma ==
    geo_pc = "dtm_done" /\ ~DtmNoCrs(georef, dtm) /\ ~DtmInRange(dtm_ray, dtm_t)
        /\ dtm_iter = 0 /\ dtm_hi = 0 => dtm_result = DtmNone

---------------------------------------------------------------------------
(* Claims about the user-interface module *)

FitReturned == ui_pc \in {"fitted", "refitted"}
Clicked == ui_pc = "clicked"

\* C15: _homography_from_points raises ValueError and returns no matrix
\* whenever min(len(src), len(dst)) < 4, leaving the module's homography as
\* it was; with 4 or more complete pairs it does not raise and its matrix
\* becomes the module's homography.
C15_FewerThanFourRaises ==
    FitReturned =>
        LET n == IF Len(call.src) <= Len(call.dst) THEN Len(call.src) ELSE Len(call.dst)
        IN  /\ n < 4 => /\ ret.raised /\ ret.error = "ValueError"
                        /\ ~ret.value.some
                        /\ H = call.H_before
            /\ n >= 4 => /\ ~ret.raised
                         /\ ret.value.some
                         /\ H = ret.value

\* a second fit with 5 pixels and only 3 scene points raises and keeps the
\* homography of the first fit
C15_Witness ==
    /\ ui_pc = "refitted"
    /\ Len(call.src) = 5 /\ Len(call.dst) = 3
    /\ ret.raised
    /\ call.H_before.some /\ H = call.H_before

\* the pixel of the calibration image the latest click stands for
ClickPixel == CalibPixel(call.u, call.v, call.uv_in_calib_space, calib_img_wh.v, VideoWH)

\* C16: where |w| is below the threshold, _apply_homography returns the NaN
\* sentinel, _map_by_homography returns (None, None) and the position shown
\* for the click does not come from the homography.
C16_DegenerateIsAbsent ==
    Clicked /\ H.some /\ calib_img_wh.some
        /\ Degenerate(HomographyW(H.v, ClickPixel[1], ClickPixel[2])) =>
            /\ ApplyHomography(H.v, ClickPixel[1], ClickPixel[2]) = NaNPair
            /\ call.mode # "PTZ+DTM only" => ret = NonePair
            /\ shown.source # "homography"

\* a click of the video widget that falls on column 100 of the calibration
\* image, where HPerspective has w = 0, in Auto mode
C16_Witness ==
    /\ Clicked /\ H.some /\ H.v = HPerspective /\ calib_img_wh.some
    /\ call.mode = "Auto (prefer Homography)" /\ call.u = 200 /\ call.v = 100 /\ ~call.uv_in_calib_space
    /\ ClickPixel = <<100, 50>>
    /\ ret = NonePair
    /\ shown.source # "homography"

\* away from the degenerate pixels the homography's position is shown
C16_FiniteWitness ==
    /\ Clicked /\ H.some /\ H.v = HPerspective /\ call.mode = "Auto (prefer Homography)"
    /\ call.u = 200 /\ call.v = 150 /\ call.uv_in_calib_space
    /\ shown = [source |-> "homography", x |-> -200 * Scale, y |-> -150 * Scale]

\* x is in (-180, 180]
InHalfOpenTurn(x) == -Deg(180) < x /\ x <= Deg(180)

\* x and y are congruent modulo 360
Congruent(x, y) == (x - y) % Deg(360) = 0

\* the value in (-180, 180] congruent to x modulo 360
Wrapped(x) == CHOOSE r \in (-Deg(180) + 1)..Deg(180) : Congruent(r, x)

\* C17: for every finite a, _normalize_angle_deg terminates (each pass of
\* either loop moves a towards the interval) and returns the value in
\* (-180, 180] congruent to a modulo 360, so normalize(-180) = 180 and
\* normalize is idempotent; _angle_diff_deg(a, b) = normalize(a - b), with
\* angle_diff(350, 10) = -20.
C17_NormalizeTerminatesInRange ==
    /\ ui_pc = "normalize_up" /\ norm_a <= -Deg(180) => FAdd(norm_a, Deg(360)) > norm_a
    /\ ui_pc = "normalize_down" /\ norm_a > Deg(180) => FSub(norm_a, Deg(360)) < norm_a
    /\ ui_pc = "returned" /\ call.f = "_normalize_angle_deg" =>
        /\ InHalfOpenTurn(ret)
        /\ Congruent(ret, call.a)
        /\ call.a = -Deg(180) => ret = Deg(180)
        /\ NormalizeAngleDeg(ret) = ret
    /\ ui_pc = "returned" /\ call.f = "_angle_diff_deg" =>
        /\ ret = Wrapped(call.a - call.b)
        /\ call.a = Deg(350) /\ call.b = Deg(10) => ret = -Deg(20)

\* the same statement for the angles whose neighbouring floats are less
\* than 360 apart
C17_ModerateAngles ==
    /\ ui_pc \in {"normalize_up", "normalize_down"} /\ Abs(call.a) < HugeAngle =>
        /\ ui_pc = "normalize_up" /\ norm_a <= -Deg(180) => FAdd(norm_a, Deg(360)) > norm_a
        /\ ui_pc = "normalize_down" /\ norm_a > Deg(180) => FSub(norm_a, Deg(360)) < norm_a
    /\ ui_pc = "returned" /\ call.f = "_normalize_angle_deg" =>
        /\ Abs(call.a) < HugeAngle
        /\ ret = Wrapped(call.a)
        /\ NormalizeAngleDeg(ret) = ret
    /\ ui_pc = "returned" /\ call.f = "_angle_diff_deg" => ret = Wrapped(call.a - call.b)

C17_ModerateWitness ==
    /\ ui_pc = "returned" /\ call.f = "_normalize_angle_deg"
    /\ call.a = -Deg(180) /\ ret = Deg(180)

C17_DiffWitness ==
    /\ ui_pc = "returned" /\ call.f = "_angle_diff_deg"
    /\ call.a = Deg(350) /\ call.b = Deg(10) /\ ret = -Deg(20)

\* C18: m = _mid_yaw_deg(a, b) lies in (-180, 180]; going from a to m and
\* from m to b is each half of the short way from a to b, modulo 360
\* (mid(170, -170) = 180); for non-antipodal a, b the two orders give the
\* same direction.  _calibrate_fov_with_ptz takes the centre bearing
\* mid(yaw_l, yaw_r) and hfov = |angle_diff(yaw_r, yaw_l)|, within [0, 180],
\* and the yaw offset that brings the pan to the centre bearing.
C18_MidYawBisects ==
    /\ ui_pc = "returned" /\ call.f = "_mid_yaw_deg" =>
        LET half == Wrapped(call.b - call.a) \div 2
        IN  /\ InHalfOpenTurn(ret)
            /\ Congruent(Wrapped(ret - call.a), half)
            /\ Congruent(Wrapped(call.b - ret), half)
            /\ call.a = Deg(170) /\ call.b = -Deg(170) => ret = Deg(180)
            /\ ~Congruent(call.b - call.a, Deg(180)) =>
                    Congruent(ret, MidYawDeg(call.b, call.a))
    /\ ui_pc = "fov_calibrated" =>
        LET half == Wrapped(call.yaw_r - call.yaw_l) \div 2
        IN  /\ InHalfOpenTurn(ret)
            /\ Congruent(ret - call.yaw_l, half)
            /\ Congruent(call.yaw_r - ret, half)
            /\ hfov_deg = Some(Abs(Wrapped(call.yaw_r - call.yaw_l)))
            /\ 0 <= hfov_deg.v /\ hfov_deg.v <= Deg(180)
            /\ yaw_offset_deg = Some(Wrapped(ret - call.pan_now))

\* the seam case of the helper
C18_Witness ==
    /\ ui_pc = "returned" /\ call.f = "_mid_yaw_deg"
    /\ call.a = Deg(170) /\ call.b = -Deg(170) /\ ret = Deg(180)

\* a two-point calibration across the seam: left point to the south-west
\* (-135), right point to the south (180), centre bearing -157.5, hfov 45
C18_CalibrationWitness ==
    /\ ui_pc = "fov_calibrated"
    /\ call.yaw_l = -Deg(135) /\ call.yaw_r = Deg(180)
    /\ ret = -315
    /\ hfov_deg = Some(Deg(45))

AzimuthCalibrated == ui_pc = "calibrated"

\* C19: after a single-point azimuth calibration at pan p with bearing b the
\* offset stored for the camera, and the module's offset once the
\* camera-changed signal is handled, is angle_diff(b, p), so that p + offset
\* is congruent to b, whatever offset was stored before.
C19_StoredOffsetIsAngleDiff ==
    AzimuthCalibrated =>
        LET offset == Wrapped(call.az - call.pan_now)
        IN  /\ ctx.present => ctx.yaw_offset_deg = offset
            /\ yaw_offset_deg = Some(offset)
            /\ Congruent(call.pan_now + yaw_offset_deg.v, call.az)

\* what the handler stores: the offset found is added to the one stored
\* before, and the module takes over the sum; without an active camera the
\* module keeps the offset found
C19_OffsetAccumulates ==
    AzimuthCalibrated =>
        /\ ret = Wrapped(call.az - call.pan_now)
        /\ ctx.present =>
            /\ call.ctx_before.present
            /\ ctx.yaw_offset_deg = call.ctx_before.yaw_offset_deg + ret
            /\ yaw_offset_deg = Some(ctx.yaw_offset_deg)
        /\ ~ctx.present => yaw_offset_deg = Some(ret)

\* the calibration repeated with the same pan and bearing
C19_RepeatedWitness ==
    /\ AzimuthCalibrated /\ picks = 2
    /\ call.pan_now = Deg(30) /\ call.az = Deg(45)
    /\ call.ctx_before = Ctx(Deg(15))
    /\ ctx = Ctx(Deg(30)) /\ yaw_offset_deg = Some(Deg(30))

\* C20: azimuth_from_ortho_points returns a bearing in [0, 360), clockwise
\* from north: 0 for a displacement to the north, 90 east, 180 south, 270
\* west, whatever the distance.
C20_AzimuthClockwiseFromNorth ==
    ui_pc = "returned" /\ call.f = "azimuth_from_ortho_points" =>
        LET dx == call.x2 - call.x1
            dy == call.y2 - call.y1
        IN  /\ 0 <= ret /\ ret < Deg(360)
            /\ dx = 0 /\ dy > 0 => ret = 0
            /\ dx > 0 /\ dy = 0 => ret = Deg(90)
            /\ dx = 0 /\ dy < 0 => ret = Deg(180)
            /\ dx < 0 /\ dy = 0 => ret = Deg(270)
            /\ dx > 0 /\ dy = dx => ret = Deg(45)
            /\ dx < 0 /\ dy = dx => ret = Deg(225)

\* a point to the west: atan2 gives -90, the result is 270
C20_Witness ==
    /\ ui_pc = "returned" /\ call.f = "azimuth_from_ortho_points"
    /\ call.x2 - call.x1 = -2 /\ call.y2 = call.y1
    /\ ret = Deg(270)

RollReturned == ui_pc = "returned" /\ call.f = "roll_error_from_horizon"

\* C21: roll_error_from_horizon(y, y, w) = 0 for every y and every w,
\* positive, zero or negative; for w > 0 the result is positive exactly when
\* y_right > y_left.
C21_LevelHorizonIsZero ==
    RollReturned =>
        /\ call.y_left = call.y_right => ret = 0
        /\ call.width > 0 => (ret > 0 <=> call.y_right > call.y_left)

\* the same for widths that are not negative
C21_NonNegativeWidth ==
    RollReturned /\ call.width >= 0 =>
        /\ call.y_left = call.y_right => ret = 0
        /\ call.width > 0 => (ret > 0 <=> call.y_right > call.y_left)
        /\ call.width > 0 => (ret < 0 <=> call.y_right < call.y_left)

\* a level horizon sampled with a negative width: atan2(0.0, -1000.0) is pi
C21_NegativeWidthWitness ==
    /\ RollReturned
    /\ call.y_left = 100 /\ call.y_right = 100 /\ call.width = -1000
    /\ ret = Deg(180)

---------------------------------------------------------------------------
(* Claims about AnyPTZClient *)

StartEnded == ap_pc = "ready" /\ ap_call.f = "start"

\* the pollers that are running
RunningPollers == { i \in 1..Len(ap_pollers) : ap_pollers[i].running }

\* the ONVIF poller came up and reported a pan, tilt or zoom
OnvifDelivers == ap_call.onvif_ok /\ ap_call.any_value

\* C22: start() ends with mode "onvif" exactly when the ONVIF client was
\* created and started without raising and one of the readings polled
\* carried a pan, tilt or zoom; in every other case the ONVIF client is
\* stopped and start() ends with mode "cgi", last() and poll_dt being the CGI
\* poller's; RuntimeError is raised only when the CGI fallback failed too.
C22_OnvifOrCgi ==
    StartEnded =>
        /\ (ap_call.error = "" /\ ap_mode = "onvif") <=> OnvifDelivers
        /\ OnvifDelivers =>
            /\ ap_client # 0 /\ ap_pollers[ap_client] = [kind |-> "onvif", running |-> TRUE]
            /\ ap_poll_dt = "onvif"
        /\ ~OnvifDelivers /\ ap_call.error = "" =>
            /\ ap_mode = "cgi"
            /\ ap_client # 0 /\ ap_pollers[ap_client] = [kind |-> "cgi", running |-> TRUE]
            /\ ap_poll_dt = "cgi"
            /\ \A i \in (ap_call.before + 1)..Len(ap_pollers) :
                    ap_pollers[i].kind = "onvif" => ~ap_pollers[i].running
        /\ ap_call.error # "" =>
            /\ ap_call.error = "RuntimeError"
            /\ ~OnvifDelivers
            /\ ~(ap_client # 0 /\ ap_pollers[ap_client] = [kind |-> "cgi", running |-> TRUE])

\* the ONVIF poller started but reported nothing: it is stopped and the CGI
\* poller runs
C22_Witness ==
    /\ StartEnded /\ ap_call.onvif_ok /\ ~ap_call.any_value /\ ap_call.error = ""
    /\ ap_call.before = 0
    /\ ap_pollers = << [kind |-> "onvif", running |-> FALSE],
                       [kind |-> "cgi", running |-> TRUE] >>
    /\ ap_mode = "cgi" /\ ap_client = 2

\* both ways fail: RuntimeError
C22_RaisesWitness ==
    /\ StartEnded /\ ap_call.error = "RuntimeError" /\ ap_call.onvif_ok

\* C27: in every state reached by start(), stop() and switch_to_cgi() calls
\* at most one poller is running, it is the one last() reads from, and mode
\* names it: "onvif" or "cgi" exactly when a poller of that kind is the
\* running one, None exactly when none is running.
C27_OnePollerNamedByMode ==
    /\ Cardinality(RunningPollers) <= 1
    /\ \A i \in RunningPollers : LastSource(ApState) = i /\ ap_mode = ap_pollers[i].kind
    /\ ap_mode = "None" <=> RunningPollers = {}

\* start() called twice: the first ONVIF poller is never stopped
C27_LeakWitness ==
    /\ ap_call.f = "start" /\ ap_call.error = ""
    /\ ap_pollers = << [kind |-> "onvif", running |-> TRUE],
                       [kind |-> "onvif", running |-> TRUE] >>

\* start() raised: mode still names the ONVIF poller that was stopped
C27_StaleModeWitness ==
    /\ ap_call.f = "start" /\ ap_call.error = "RuntimeError"
    /\ ap_mode = "onvif" /\ RunningPollers = {}

---------------------------------------------------------------------------
(* Claims about the persistence of the offsets *)

\* the offset fields of a bundle file, of a meta dict and of a profile
FileOffsets(b) == <<b.yaw_offset_deg, b.pitch_offset_deg, b.roll_offset_deg>>
ProfileOffsets(p) == <<p.yaw_offset_deg, p.pitch_offset_deg, p.roll_offset_deg>>
SomeTriple(o) == <<Some(o[1]), Some(o[2]), Some(o[3])>>

\* the offsets written last: by the latest _persist_ctx_offsets, else by
\* save_bundle
LastWritten ==
    IF st_call.f = "_persist_ctx_offsets" THEN st_call.ctx.offsets ELSE st_call.offsets

\* C24: after save_bundle and any number of _persist_ctx_offsets calls,
\* load_bundle returns in meta the offsets written last, whatever the bundle's
\* own meta holds; _persist_ctx_offsets changes only the three offset fields
\* of the bundle and of the profile named by the alias.
C24_OffsetsSurvive ==
    /\ st_pc = "loaded" =>
        /\ FileOffsets(st_loaded) = SomeTriple(LastWritten)
        /\ st_loaded.other = st_bundle.meta.other
    /\ st_pc # "new" /\ st_call.f = "_persist_ctx_offsets" =>
        /\ FileOffsets(st_bundle) = SomeTriple(st_call.ctx.offsets)
        /\ st_bundle.rest = st_call.bundle_before.rest
        /\ st_bundle.meta = st_call.bundle_before.meta
        /\ Len(st_profiles) = Len(st_call.profiles_before)
        /\ \A i \in 1..Len(st_profiles) :
            /\ st_profiles[i].name = st_call.profiles_before[i].name
            /\ st_profiles[i].rtsp = st_call.profiles_before[i].rtsp
            /\ IF st_profiles[i].name = st_call.ctx.alias
               THEN ProfileOffsets(st_profiles[i]) = st_call.ctx.offsets
               ELSE st_profiles[i] = st_call.profiles_before[i]

\* the same for bundles whose meta holds none of the offset keys
C24_PlainMeta ==
    st_bundle.meta.yaw_offset_deg = None /\ st_bundle.meta.pitch_offset_deg = None
        /\ st_bundle.meta.roll_offset_deg = None => C24_OffsetsSurvive

\* a bundle saved with the meta of an earlier load (offsets 5, 1, 2), then
\* offsets 12, 0, -3 persisted: load_bundle returns 5, 1, 2
C24_StaleMetaWitness ==
    /\ st_pc = "loaded" /\ st_call.f = "_persist_ctx_offsets"
    /\ st_call.ctx.offsets = <<12, 0, -3>>
    /\ FileOffsets(st_bundle) = SomeTriple(<<12, 0, -3>>)
    /\ FileOffsets(st_loaded) = SomeTriple(<<5, 1, 2>>)

---------------------------------------------------------------------------
(* PtzCgiThread and OnvifPTZClient *)

\* the one polling thread of a poller started once has handled a response
\* with a 2xx code, pan and tilt
HandledGoodResponse ==
    /\ pl_kind = "cgi"
    /\ Len(pl_threads) = 1
    /\ pl_threads[1].pc \in {"sleep", "loop", "fetch", "exited"}
    /\ GoodResponse(pl_threads[1].resp)

\* C23: once a started PtzCgiThread has received a 2xx response with pan and
\* tilt, last() returns the parsed pan, tilt, zoom and focus of that response
\* and shared_state.ptz_meta holds a dict with the same pan_deg and focus_pos
\* and a cgi_last entry with that pan_deg, also after stop()
C23_SharedStateHoldsReading ==
    HandledGoodResponse =>
        /\ pl_last = CgiStatus(pl_threads[1].resp)
        /\ ptz_meta.some
        /\ ptz_meta.v.pan_deg = pl_last.pan_deg
        /\ ptz_meta.v.focus_pos = pl_last.focus_pos
        /\ ptz_meta.v.cgi_last.pan_deg = pl_last.pan_deg

\* C23, the part about last(): it returns the parsed values of the response
C23_LastReturnsParsed ==
    HandledGoodResponse => pl_last = CgiStatus(pl_threads[1].resp)

\* C23: a good response was handled, stop() has returned with the thread
\* ended, and shared_state.ptz_meta is still None
C23_Witness ==
    /\ HandledGoodResponse
    /\ pl_threads[1].pc = "exited"
    /\ pl_caller = "stopped"
    /\ pl_last = Reading(Some(1000), Some(2000), Some(250), None, Some(3000))
    /\ ~ptz_meta.some

\* C28: after stop() has returned the polling loop updates neither last()
\* nor the shared PTZ state, and at most one polling loop is running per
\* client object after any sequence of start() and stop() calls
C28_StopQuiesces ==
    /\ [](Cardinality(AliveThreads) <= 1)
    /\ [][(pl_caller = "stopped" /\ pl_caller' = "stopped")
            => (pl_last' = pl_last /\ ptz_meta' = ptz_meta)]_vars

\* C28: stop() has returned and a polling thread is in the middle of
\* writing a reading
C28_LateUpdateWitness ==
    /\ pl_caller = "stopped"
    /\ Len(pl_threads) = 1
    /\ \E i \in AliveThreads : pl_threads[i].pc \in {"set_tilt", "replace"}

\* C28: two polling loops of one client run, the stop event cleared
C28_TwoLoopsWitness ==
    /\ Cardinality(AliveThreads) = 2
    /\ ~pl_stop
    /\ \A i \in AliveThreads : pl_threads[i].pc = "sleep"

\* C28: stop() whose join ended with the thread: nothing runs afterwards
C28_JoinedIsQuiet ==
    (pl_caller = "stopped" /\ Len(pl_threads) = 1 /\ pl_threads[1].pc = "exited")
        => AliveThreads = {}

\* the readings a single response can produce
WholeReadings ==
    {EmptyReading}
        \cup { CgiStatus(r) : r \in { q \in CgiResponses : GoodResponse(q) } }
        \cup { r.reading : r \in OnvifReadings }

\* C29: a reading obtained from PtzCgiThread.last() while the polling thread
\* runs has pan_deg, tilt_deg, zoom_norm and focus_pos of one and the same
\* poll response
C29_ConsistentSnapshot ==
    (pl_kind = "cgi" /\ Len(pl_threads) <= 1) => pl_snap \in WholeReadings

\* C29: a reading with the pan of one response and the tilt of another
C29_TornWitness ==
    /\ pl_kind = "cgi" /\ Len(pl_threads) = 1
    /\ pl_snap.pan_deg = Some(90000)
    /\ pl_snap.tilt_deg = Some(2000)

\* C29, for OnvifPTZClient: _run replaces the whole object, a reading is of
\* one response
C29_OnvifSnapshot ==
    pl_kind = "onvif" => pl_snap \in WholeReadings

\* C29: a response lacking pan or tilt leaves the reading unchanged
C29_BadResponseKeepsReading ==
    [][\A i \in 1..Len(pl_threads) :
          (pl_threads[i].pc = "fetch" /\ Len(pl_threads') = Len(pl_threads)
           /\ pl_threads'[i].pc = "sleep")
              => pl_last' = pl_last]_vars

---------------------------------------------------------------------------
(* The bisection and the march of intersect_ray_with_dem *)

\* the bisection is under way or has returned its hit
InBisection == pc = "refine" \/ (pc = "done" /\ result.hit)

\* what stays true through every iteration, whatever the sign of step_m:
\* the ends lie between the anchor and the crossing sample, hi is a valid
\* sample, val_lo and the value at hi bracket the surface, and every
\* iteration has halved the width
BracketKept ==
    /\ Sgn(lo - t_prev) \in {0, Sgn(step_m)}
    /\ Sgn(t - hi) \in {0, Sgn(step_m)}
    /\ IsValid(ElevAt(Q, hi))
    /\ ProdNonPos(val_lo, CurrVal(Q, hi))
    /\ (hi - lo) * Pow2(iter) = t - t_prev

\* C25: throughout the bisection lo <= hi, [lo, hi] lies inside the march
\* bracket [t_prev, t], hi is a position with a valid sample,
\* val_lo * (ray.z(hi) - elev(hi)) <= 0, the width halves at every
\* iteration, and the returned position is within step / 2^refine_steps
\* of lo
C25_WithinOneStep ==
    InBisection =>
        /\ lo <= hi /\ t_prev <= lo /\ hi <= t
        /\ BracketKept
        /\ (pc = "done" =>
                Abs(hi - lo) * Pow2(refine_steps) <= Abs(StepTicks(Q)))

\* C25, amended: the bracket is the whole stretch from the anchor to the
\* crossing sample, one step for the crossing sample and one more for every
\* sample without data skipped before it, and runs downwards when step_m is
\* negative; the returned position is within |t - t_prev| / 2^refine_steps
\* of lo
C25_WithinBracket ==
    InBisection =>
        /\ Sgn(hi - lo) = Sgn(step_m)
        /\ BracketKept
        /\ \E k \in 1..MaxSamples : t - t_prev = k * StepTicks(Q)
        /\ (pc = "done" => (hi - lo) * Pow2(refine_steps) = t - t_prev)

\* C25: a hit returned after a skipped sample and a midpoint without data,
\* two ticks away from lo
C25_Witness ==
    /\ pc = "done" /\ result.hit
    /\ step_m = 20 /\ refine_steps = 3
    /\ t - t_prev = 2 * StepTicks(Q)
    /\ hi - lo = 2
    /\ ~IsValid(ElevAt(Q, lo))

\* C25: a bisection that runs downwards from the origin
C25_NegativeStepWitness ==
    /\ pc = "refine" /\ iter = 2
    /\ step_m < 0
    /\ hi < lo

\* the march samples the range allows when step_m > 0
MarchSamples == max_range_m \div step_m

\* C26: intersect_ray_with_dem terminates for every step_m, max_range_m
\* being the only bound needed: every pass of the march loop takes t nearer
\* to max_range, and with step_m > 0 there are at most
\* floor(max_range / step) + refine_steps + 2 elevation samples
C26_MaxRangeBoundsTheMarch ==
    /\ [][(pc = "march" /\ pc' = "march") => t' > t]_vars
    /\ [](pc \in {"march", "refine", "done"} /\ step_m > 0
            => samples <= MarchSamples + refine_steps + 2)

\* C26: with step_m = 0 the march loop is where it was MaxSamples samples
\* ago
C26_ZeroStepWitness ==
    /\ pc = "march" /\ step_m = 0
    /\ samples = MaxSamples
    /\ t = 0 /\ t_prev = 0

\* C26: with step_m < 0 the march moves away from max_range
C26_NegativeStepWitness ==
    /\ pc = "march" /\ step_m < 0
    /\ samples = MaxSamples
    /\ t = MaxSamples * StepTicks(Q)

\* C26, for step_m > 0: the samples are bounded and none lies beyond
\* max_range
C26_PositiveStep ==
    (pc \in {"march", "refine", "done"} /\ step_m > 0) =>
        /\ samples <= MarchSamples + refine_steps + 2
        /\ 0 <= t_prev /\ t_prev < t
        /\ InRange(Q, t_prev)
        /\ (InBisection => 0 <= lo /\ lo <= hi /\ hi <= t /\ InRange(Q, t))

\* C26: a run with step_m > 0 that marches through the whole range
C26_WholeRangeWitness ==
    /\ pc = "done" /\ ~result.hit
    /\ step_m = 5
    /\ samples = MarchSamples + 1

---------------------------------------------------------------------------
(* HomographyDialog *)

\* the i-th scene point is the one marked i on the map
Numbered(xys) == \A i \in 1..Len(xys) : xys[i].num = i

\* C30: after any sequence of image clicks, map clicks, Undo and Clear the
\* pixel list is as long as the scene list when the dialog awaits an image
\* click and one longer when it awaits a map click; OK is enabled exactly
\* when the number of complete pairs is between 4 and 8; every accepted
\* result is two equally long, index-aligned lists of 4 to 8 entries
C30_PairedLists ==
    dlg_pc \in {"open", "accepted", "rejected"} =>
        /\ dlg_awaiting = "image" => Len(dlg_uvs) = Len(dlg_xys)
        /\ dlg_awaiting = "map" => Len(dlg_uvs) = Len(dlg_xys) + 1
        /\ dlg_ok <=> (4 <= NumComplete(dlg_uvs, dlg_xys)
                       /\ NumComplete(dlg_uvs, dlg_xys) <= 8)
        /\ Numbered(dlg_xys)
        /\ dlg_pc = "accepted" =>
              /\ dlg_result.some
              /\ Len(dlg_result.uvs) = Len(dlg_result.xys)
              /\ Len(dlg_result.uvs) \in 4..8
              /\ Numbered(dlg_result.xys)
              /\ \A i \in 1..Len(dlg_result.uvs) :
                    /\ dlg_result.uvs[i] = dlg_uvs[i]
                    /\ dlg_result.xys[i] = dlg_xys[i]

\* C30: OK pressed with four pairs and a fifth image click pending
C30_Witness ==
    /\ dlg_pc = "accepted"
    /\ dlg_awaiting = "map"
    /\ Len(dlg_uvs) = 5 /\ Len(dlg_xys) = 4
    /\ Len(dlg_result.uvs) = 4

\* C30: nine pairs picked, OK disabled again
C30_DisabledWitness ==
    /\ dlg_pc = "open"
    /\ Len(dlg_uvs) = 9 /\ Len(dlg_xys) = 9
    /\ ~dlg_ok

\* C30: Undo pressed while a map click is awaited
C30_UndoWitness ==
    /\ dlg_pc = "open"
    /\ dlg_awaiting = "map"
    /\ Len(dlg_uvs) = 4 /\ Len(dlg_xys) = 3
    /\ dlg_uvs[4] = <<10, 20>> /\ dlg_uvs[3] = <<300, 40>> /\ dlg_uvs[2] = <<300, 40>>
    /\ dlg_uvs[1] = <<300, 40>>

====
